---- MODULE Spec2Model ----
(***************************************************************************)
(* Model of packages/sync-jsr-json/src/lib/sync-jsr-json.ts: the batch     *)
(* synchronisation of jsr.json manifests with package.json manifests.      *)
(*                                                                         *)
(* Strings are sequences of characters (one-character strings), so that    *)
(* parsing and formatting are computed, not assumed.  Fixed literal pieces *)
(* of log and change messages are kept as single chunks.                   *)
(***************************************************************************)
EXTENDS Integers, Sequences, FiniteSets, TLC

(***************************************************************************)
(* Bounds of the model.                                                    *)
(***************************************************************************)
NumDirs == 2
MaxRuns == 2
MaxImports == 2

(***************************************************************************)
(* Characters and the character classes of the regular expression of       *)
(* parseJsrImport.                                                         *)
(***************************************************************************)
Digit == {"0", "1", "2", "3", "4", "5", "6", "7", "8", "9"}

Lower == {"a", "b", "c", "d", "e", "f", "g", "h", "i", "j", "k", "l", "m",
          "n", "o", "p", "q", "r", "s", "t", "u", "v", "w", "x", "y", "z"}

Upper == {"A", "B", "C", "D", "E", "F", "G", "H", "I", "J", "K", "L", "M",
          "N", "O", "P", "Q", "R", "S", "T", "U", "V", "W", "X", "Y", "Z"}

\* [\w-]
NameChar == Lower \cup Upper \cup Digit \cup {"_", "-"}

\* [\^~><=]
OpChar == {"^", "~", ">", "<", "="}

\* [\d.]
VersionChar == Digit \cup {"."}

(***************************************************************************)
(* JSON values: a string, a number, or undefined (the property is absent). *)
(***************************************************************************)
Str(s) == [t |-> "str", s |-> s]
Num(s) == [t |-> "num", s |-> s]
Undef == [t |-> "undef", s |-> <<>>]

\* JavaScript truthiness of a value (a non-empty string, a non-zero number).
Truthy(v) ==
  \/ v.t = "str" /\ v.s # <<>>
  \/ v.t = "num" /\ v.s # <<"0">>

\* `${v}` in a template literal.
ToText(v) == IF v.t = "undef" THEN <<"undefined">> ELSE v.s

\* a || b when the right operand is taken whenever it is truthy
OrElsePreferRight(a, b) == IF Truthy(b) THEN b ELSE a

\* a || b
OrElse(a, b) == IF Truthy(a) THEN a ELSE b

JSR == <<"j", "s", "r", ":">>
NPM == <<"n", "p", "m", ":">>
AT == <<"@">>

(***************************************************************************)
(* parseJsrImport matches, from the start of the string and without an     *)
(* anchor at the end: "jsr:", then the package name (an optional "@", one  *)
(* or more name characters, "/", one or more name characters), then "@",   *)
(* then any number of operator characters, then one or more version        *)
(* characters.                                                             *)
(* The classes that follow one another are disjoint, so the greedy match   *)
(* is the only match: each run is the maximal run of its class.            *)
(* The result is <<>> (null) or a one-element sequence.                    *)
(***************************************************************************)
RECURSIVE RunLen(_, _, _)
RunLen(s, i, class) ==
  IF i <= Len(s) /\ s[i] \in class THEN 1 + RunLen(s, i + 1, class) ELSE 0

CharAt(s, i) == IF i >= 1 /\ i <= Len(s) THEN s[i] ELSE ""

\* parseJsrImport without the check of the "jsr:" prefix
ParseAnyRegistry(s) ==
  IF Len(s) < 4 THEN <<>>
  ELSE
    LET a  == IF CharAt(s, 5) = "@" THEN 6 ELSE 5
        n1 == RunLen(s, a, NameChar)
        b  == a + n1
        n2 == RunLen(s, b + 1, NameChar)
        c  == b + 1 + n2
        n3 == RunLen(s, c + 1, OpChar)
        d  == c + 1 + n3
        n4 == RunLen(s, d, VersionChar)
    IN IF /\ n1 >= 1
          /\ CharAt(s, b) = "/"
          /\ n2 >= 1
          /\ CharAt(s, c) = "@"
          /\ n4 >= 1
       THEN << [packageName   |-> SubSeq(s, 5, c - 1),
                version       |-> SubSeq(s, d, d + n4 - 1),
                versionPrefix |-> SubSeq(s, c + 1, d - 1)] >>
       ELSE <<>>

ParseJsrImport(s) ==
  IF Len(s) < 4 \/ SubSeq(s, 1, 4) # JSR THEN <<>>
  ELSE
    LET a  == IF CharAt(s, 5) = "@" THEN 6 ELSE 5
        n1 == RunLen(s, a, NameChar)
        b  == a + n1
        n2 == RunLen(s, b + 1, NameChar)
        c  == b + 1 + n2
        n3 == RunLen(s, c + 1, OpChar)
        d  == c + 1 + n3
        n4 == RunLen(s, d, VersionChar)
    IN IF /\ n1 >= 1
          /\ CharAt(s, b) = "/"
          /\ n2 >= 1
          /\ CharAt(s, c) = "@"
          /\ n4 >= 1
       THEN << [packageName   |-> SubSeq(s, 5, c - 1),
                version       |-> SubSeq(s, d, d + n4 - 1),
                versionPrefix |-> SubSeq(s, c + 1, d - 1)] >>
       ELSE <<>>

(***************************************************************************)
(* createJsrImport: `jsr:${packageName}@${versionPrefix}${version}`        *)
(***************************************************************************)
\* createJsrImport that defaults a missing operator to "^"
CreateJsrImportDefaultCaret(packageName, versionPrefix, version) ==
  JSR \o packageName \o AT
    \o (IF versionPrefix = <<>> THEN <<"^">> ELSE versionPrefix) \o version

\* createJsrImport that leaves the operator out
CreateJsrImportNoPrefix(packageName, versionPrefix, version) ==
  JSR \o packageName \o AT \o version

CreateJsrImport(packageName, versionPrefix, version) ==
  JSR \o packageName \o AT \o versionPrefix \o version

\* the replacement with /^\^/: only a caret is removed
CleanVersionCaretOnly(range) ==
  IF Len(range) >= 1 /\ range[1] = "^" THEN Tail(range) ELSE range

\* packageJsonVersion.replace(/^[\^~]/, '')
CleanVersion(range) ==
  IF Len(range) >= 1 /\ range[1] \in {"^", "~"} THEN Tail(range) ELSE range

(***************************************************************************)
(* calculateImportUpdate: <<>> (null) or one update                        *)
(* packageMap and dependencies are functions from names to strings; a name *)
(* outside the domain is `undefined`.                                      *)
(***************************************************************************)
Update(dep, from, to) == [dependency |-> dep, from |-> from, to |-> to]

Lookup(map, key) == IF key \in DOMAIN map THEN Str(map[key]) ELSE Undef

\* calculateImportUpdate that looks the alias up in the index
CalculateImportUpdateByAlias(dep, importValue, packageMap, dependencies) ==
  LET stringValue == IF importValue.t = "str" THEN importValue.s ELSE <<>>
      parsed == ParseJsrImport(stringValue)
  IN IF parsed = <<>> THEN <<>>
     ELSE
       LET p == parsed[1]
           monorepoVersion == Lookup(packageMap, dep)
           packageJsonVersion == Lookup(dependencies, dep)
       IN IF Truthy(monorepoVersion)
          THEN LET newImport == CreateJsrImport(p.packageName, p.versionPrefix,
                                                monorepoVersion.s)
               IN IF stringValue # newImport
                  THEN << Update(dep, stringValue, newImport) >>
                  ELSE <<>>
          ELSE IF Truthy(packageJsonVersion) /\ p.packageName = dep
          THEN LET newImport == CreateJsrImport(p.packageName, p.versionPrefix,
                                      CleanVersion(packageJsonVersion.s))
               IN IF stringValue # newImport
                  THEN << Update(dep, stringValue, newImport) >>
                  ELSE <<>>
          ELSE <<>>

\* calculateImportUpdate that looks the package name up in the dependencies
\* of package.json, whatever the alias
CalculateImportUpdateAnyAlias(dep, importValue, packageMap, dependencies) ==
  LET stringValue == IF importValue.t = "str" THEN importValue.s ELSE <<>>
      parsed == ParseJsrImport(stringValue)
  IN IF parsed = <<>> THEN <<>>
     ELSE
       LET p == parsed[1]
           monorepoVersion == Lookup(packageMap, p.packageName)
           packageJsonVersion == Lookup(dependencies, p.packageName)
       IN IF Truthy(monorepoVersion)
          THEN LET newImport == CreateJsrImport(p.packageName, p.versionPrefix,
                                                monorepoVersion.s)
               IN IF stringValue # newImport
                  THEN << Update(dep, stringValue, newImport) >>
                  ELSE <<>>
          ELSE IF Truthy(packageJsonVersion)
          THEN LET newImport == CreateJsrImport(p.packageName, p.versionPrefix,
                                      CleanVersion(packageJsonVersion.s))
               IN IF stringValue # newImport
                  THEN << Update(dep, stringValue, newImport) >>
                  ELSE <<>>
          ELSE <<>>

CalculateImportUpdate(dep, importValue, packageMap, dependencies) ==
  LET stringValue == IF importValue.t = "str" THEN importValue.s ELSE <<>>
      parsed == ParseJsrImport(stringValue)
  IN IF parsed = <<>> THEN <<>>
     ELSE
       LET p == parsed[1]
           monorepoVersion == Lookup(packageMap, p.packageName)
           packageJsonVersion == Lookup(dependencies, dep)
       IN IF Truthy(monorepoVersion)
          THEN LET newImport == CreateJsrImport(p.packageName, p.versionPrefix,
                                                monorepoVersion.s)
               IN IF stringValue # newImport
                  THEN << Update(dep, stringValue, newImport) >>
                  ELSE <<>>
          ELSE IF Truthy(packageJsonVersion) /\ p.packageName = dep
          THEN LET newImport == CreateJsrImport(p.packageName, p.versionPrefix,
                                      CleanVersion(packageJsonVersion.s))
               IN IF stringValue # newImport
                  THEN << Update(dep, stringValue, newImport) >>
                  ELSE <<>>
          ELSE <<>>

(***************************************************************************)
(* calculateImportUpdates: the updates of all entries, in the order of     *)
(* Object.entries(imports).  imports is a sequence of [k, v] entries.      *)
(***************************************************************************)
RECURSIVE CalculateImportUpdates(_, _, _)
CalculateImportUpdates(imports, packageMap, dependencies) ==
  IF imports = <<>> THEN <<>>
  ELSE CalculateImportUpdate(Head(imports).k, Head(imports).v,
                             packageMap, dependencies)
       \o CalculateImportUpdates(Tail(imports), packageMap, dependencies)

\* `   Updating ${pkg}/jsr.json imports[${dependency}]: ${from} -> ${to}`
\* (the arrow and the emoji of the source are written in ASCII)
ImportLogMessage(pkg, u) ==
  <<"   Updating ">> \o pkg \o <<"/jsr.json imports[">> \o u.dependency
    \o <<"]: ">> \o u.from \o <<" -> ">> \o u.to

CreateImportLogMessages(pkg, updates) ==
  [i \in 1..Len(updates) |-> ImportLogMessage(pkg, updates[i])]

\* `imports[${dependency}]: ${from} -> ${to}`
ImportChange(u) ==
  <<"imports[">> \o u.dependency \o <<"]: ">> \o u.from \o <<" -> ">> \o u.to

\* Object.assign when the imports are replaced by the updated entries
AssignImportsUpdatedOnly(imports, updates) ==
  [j \in 1..Len(updates) |->
     [k |-> updates[j].dependency, v |-> Str(updates[j].to)]]

\* Object.assign(imports, updatedImports): the values of the updated keys
\* are replaced, no key is added since every update's key comes from imports.
AssignImports(imports, updates) ==
  [i \in 1..Len(imports) |->
     IF \E j \in 1..Len(updates) : updates[j].dependency = imports[i].k
     THEN LET j == CHOOSE j \in 1..Len(updates) :
                     updates[j].dependency = imports[i].k
          IN [k |-> imports[i].k, v |-> Str(updates[j].to)]
     ELSE imports[i]]

\* formatImportUpdates that lists the changes from the last update to the
\* first
FormatImportUpdatesReversed(updates) ==
  [changes |-> [i \in 1..Len(updates) |->
                  ImportChange(updates[Len(updates) + 1 - i])],
   updatedImports |-> updates]

FormatImportUpdates(updates) ==
  [changes |-> [i \in 1..Len(updates) |-> ImportChange(updates[i])],
   updatedImports |-> updates]

\* `${n}` of a small natural number
DecimalText(n) == << <<"0", "1", "2", "3", "4", "5", "6", "7", "8", "9">>[n + 1] >>

\* createSummaryMessage when the count message always has the plural
CreateSummaryMessageAlwaysPlural(syncedCount) ==
  IF syncedCount = 0 THEN <<"   JSR versions already in sync">>
  ELSE <<"   Synced ">> \o DecimalText(syncedCount) \o <<" JSR versions">>

\* createSummaryMessage
CreateSummaryMessage(syncedCount) ==
  IF syncedCount = 0 THEN <<"   JSR versions already in sync">>
  ELSE <<"   Synced ">> \o DecimalText(syncedCount) \o <<" JSR ">>
         \o (IF syncedCount = 1 THEN <<"version">> ELSE <<"versions">>)

(***************************************************************************)
(* The packages directory.  readdir lists NumDirs package directories and  *)
(* one plain file; getPackageNames keeps the directories, in listing       *)
(* order.  A package is identified by its position in the listing.         *)
(***************************************************************************)
DirDigit == <<"1", "2", "3", "4", "5">>

DirName(i) == <<"p", DirDigit[i]>>

Listing ==
  [i \in 1..(NumDirs + 1) |->
     IF i <= NumDirs THEN [name |-> DirName(i), isDirectory |-> TRUE]
     ELSE [name |-> <<"README.md">>, isDirectory |-> FALSE]]

RECURSIVE DirectoriesFrom(_)
DirectoriesFrom(i) ==
  IF i > Len(Listing) THEN <<>>
  ELSE (IF Listing[i].isDirectory THEN <<i>> ELSE <<>>) \o DirectoriesFrom(i + 1)

GetPackageNames == DirectoriesFrom(1)

Dirs == {GetPackageNames[i] : i \in 1..Len(GetPackageNames)}

(***************************************************************************)
(* Manifests.  A file is absent, unreadable (an I/O error other than       *)
(* ENOENT on read), holds text that is not JSON, holds the JSON text       *)
(* `null`, or holds a JSON object ("ok"; "readonly" when it can be read    *)
(* but writing it fails with an I/O error).  The content of a file that    *)
(* holds a JSON object is kept as the parsed document: JSON.stringify      *)
(* followed by JSON.parse gives back the same names and values.            *)
(***************************************************************************)
EmptyMap == [n \in {} |-> <<>>]

PackageJson(name, version, dependencies) ==
  [name |-> name, version |-> version, dependencies |-> dependencies]

JsrJson(name, version, hasImports, imports) ==
  [name |-> name, version |-> version, hasImports |-> hasImports,
   imports |-> imports]

NoPackageJson == PackageJson(Undef, Undef, EmptyMap)
NoJsrJson == JsrJson(Undef, Undef, FALSE, <<>>)

File(st, doc) == [st |-> st, doc |-> doc]

\* readFile succeeds
Readable(f) == f.st \in {"ok", "readonly", "malformed", "null"}

\* JSON.parse returns an object
IsObject(f) == f.st \in {"ok", "readonly"}

PackageJsonPath(d) == [dir |-> DirName(d), file |-> "package.json"]
JsrJsonPath(d) == [dir |-> DirName(d), file |-> "jsr.json"]

(***************************************************************************)
(* Errors.                                                                 *)
(***************************************************************************)
\* the error a failing readFile / writeFile rejects with
ErrnoException(code, path) == [name |-> "Error", code |-> code, path |-> path]
\* the error JSON.parse throws on text that is not JSON
SyntaxError(path) == [name |-> "SyntaxError", code |-> "", path |-> path]
\* the error a property access on null throws
TypeError(path) == [name |-> "TypeError", code |-> "", path |-> path]

JsonParseError(d, path, cause) ==
  [kind |-> "JsonParseError", pkg |-> d, path |-> path, cause |-> cause]

FileSystemError(d, path, cause) ==
  [kind |-> "FileSystemError", pkg |-> d, path |-> path, cause |-> cause]

\* the error of readFile on a file that cannot be read
ReadError(f, path) ==
  IF f.st = "absent" THEN ErrnoException("ENOENT", path)
  ELSE ErrnoException("EACCES", path)

(***************************************************************************)
(* readPackageInfo: the outcome of the index task of package d on its      *)
(* package.json f.  A settled task is "done" (info is <<>> for null) or    *)
(* "rejected".                                                             *)
(***************************************************************************)
Done(info) == [st |-> "done", info |-> info, err |-> <<>>]
Rejected(e) == [st |-> "rejected", info |-> <<>>, err |-> <<e>>]

\* the catch block of readPackageInfo when the test for Error comes before
\* the test for SyntaxError
CatchReadPackageInfoErrorFirst(d, e) ==
  IF e.code = "ENOENT" THEN Done(<<>>)
  ELSE Rejected(FileSystemError(d, PackageJsonPath(d), e))

\* the catch block of readPackageInfo
CatchReadPackageInfo(d, e) ==
  IF e.code = "ENOENT" THEN Done(<<>>)
  ELSE IF e.name = "SyntaxError"
  THEN Rejected(JsonParseError(d, PackageJsonPath(d), e))
  ELSE Rejected(FileSystemError(d, PackageJsonPath(d), e))

ReadPackageInfo(d, f) ==
  IF ~Readable(f) THEN CatchReadPackageInfo(d, ReadError(f, PackageJsonPath(d)))
  ELSE IF f.st = "malformed"
  THEN CatchReadPackageInfo(d, SyntaxError(PackageJsonPath(d)))
  ELSE IF f.st = "null"
  THEN CatchReadPackageInfo(d, TypeError(PackageJsonPath(d)))
  ELSE IF Truthy(f.doc.name) /\ Truthy(f.doc.version)
  THEN Done(<< [name |-> f.doc.name.s, version |-> f.doc.version.s] >>)
  ELSE Done(<<>>)

(***************************************************************************)
(* buildPackageMap: new Map(entries) over the non-null infos in listing    *)
(* order; a later entry with the same name replaces the earlier value.     *)
(***************************************************************************)
RECURSIVE InfosFrom(_, _)
InfosFrom(tasks, i) ==
  IF i > Len(GetPackageNames) THEN <<>>
  ELSE tasks[GetPackageNames[i]].info \o InfosFrom(tasks, i + 1)

\* the first entry of a name
FirstIndexOf(infos, n) ==
  CHOOSE i \in 1..Len(infos) :
    /\ infos[i].name = n
    /\ \A j \in 1..(i - 1) : infos[j].name # n

LastIndexOf(infos, n) ==
  CHOOSE i \in 1..Len(infos) :
    /\ infos[i].name = n
    /\ \A j \in (i + 1)..Len(infos) : infos[j].name # n

NewMap(infos) ==
  [n \in {infos[i].name : i \in 1..Len(infos)} |->
     infos[LastIndexOf(infos, n)].version]

BuildPackageMap(tasks) == NewMap(InfosFrom(tasks, 1))

(***************************************************************************)
(* syncPackage, from the point where both files have been read to the      *)
(* point where it writes or returns: the parsed documents are compared,    *)
(* the log lines are emitted and the changes are staged.                   *)
(* The outcome has: thrown (<<>> or the error thrown), logs, changes,      *)
(* packageName and doc (the updated jsr.json document).                    *)
(***************************************************************************)
Thrown(e) ==
  [thrown |-> <<e>>, logs |-> <<>>, changes |-> <<>>, packageName |-> <<>>,
   doc |-> NoJsrJson]

\* `   Updating ${pkg}/jsr.json: ${jsrJson.version} -> ${packageJson.version}`
VersionLogMessage(pkg, from, to) ==
  <<"   Updating ">> \o pkg \o <<"/jsr.json: ">> \o ToText(from)
    \o <<" -> ">> \o ToText(to)

\* `version: ${jsrJson.version} -> ${packageJson.version}`
VersionChange(from, to) ==
  <<"version: ">> \o ToText(from) \o <<" -> ">> \o ToText(to)

\* syncPackage when the version of package.json is not tested for presence
SyncDocumentsAnyVersion(d, packageJson, jsrJson, packageMap) ==
  LET pkg == DirName(d)
      versionDiffers ==
        packageJson.version # jsrJson.version
      versionLogs ==
        IF versionDiffers
        THEN << VersionLogMessage(pkg, jsrJson.version, packageJson.version) >>
        ELSE <<>>
      versionChanges ==
        IF versionDiffers
        THEN << VersionChange(jsrJson.version, packageJson.version) >>
        ELSE <<>>
      newVersion ==
        IF versionDiffers THEN packageJson.version ELSE jsrJson.version
      updates ==
        IF jsrJson.hasImports
        THEN CalculateImportUpdates(jsrJson.imports, packageMap,
                                    packageJson.dependencies)
        ELSE <<>>
      importChanges == FormatImportUpdates(updates)
  IN [thrown |-> <<>>,
      logs |-> versionLogs \o CreateImportLogMessages(pkg, updates),
      changes |-> versionChanges \o importChanges.changes,
      packageName |->
        OrElse(packageJson.name, OrElse(jsrJson.name, Str(pkg))).s,
      doc |-> [jsrJson EXCEPT
                 !.version = newVersion,
                 !.imports = AssignImports(jsrJson.imports,
                                           importChanges.updatedImports)]]

\* syncPackage on the two parsed documents
SyncDocuments(d, packageJson, jsrJson, packageMap) ==
  LET pkg == DirName(d)
      versionDiffers ==
        Truthy(packageJson.version) /\ packageJson.version # jsrJson.version
      versionLogs ==
        IF versionDiffers
        THEN << VersionLogMessage(pkg, jsrJson.version, packageJson.version) >>
        ELSE <<>>
      versionChanges ==
        IF versionDiffers
        THEN << VersionChange(jsrJson.version, packageJson.version) >>
        ELSE <<>>
      newVersion ==
        IF versionDiffers THEN packageJson.version ELSE jsrJson.version
      updates ==
        IF jsrJson.hasImports
        THEN CalculateImportUpdates(jsrJson.imports, packageMap,
                                    packageJson.dependencies)
        ELSE <<>>
      importChanges == FormatImportUpdates(updates)
  IN [thrown |-> <<>>,
      logs |-> versionLogs \o CreateImportLogMessages(pkg, updates),
      changes |-> versionChanges \o importChanges.changes,
      packageName |->
        OrElse(packageJson.name, OrElse(jsrJson.name, Str(pkg))).s,
      doc |-> [jsrJson EXCEPT
                 !.version = newVersion,
                 !.imports = AssignImports(jsrJson.imports,
                                           importChanges.updatedImports)]]

SyncPackageBody(d, pf, jf, packageMap) ==
  IF pf.st = "malformed" THEN Thrown(SyntaxError(PackageJsonPath(d)))
  ELSE IF jf.st = "malformed" THEN Thrown(SyntaxError(JsrJsonPath(d)))
  ELSE IF pf.st = "null" THEN Thrown(TypeError(PackageJsonPath(d)))
  ELSE IF jf.st = "null" THEN Thrown(TypeError(JsrJsonPath(d)))
  ELSE SyncDocuments(d, pf.doc, jf.doc, packageMap)

(***************************************************************************)
(* The outcome of a sync task: "done" with rec = <<>> (null) or one        *)
(* ChangeRecord, "writing" while writeFile is in flight, or "rejected".    *)
(***************************************************************************)
ChangeRecord(changes, packageName) ==
  [changes |-> changes, packageName |-> packageName]

TaskIdle == [st |-> "idle", rec |-> <<>>, doc |-> NoJsrJson, err |-> <<>>]
TaskPending == [TaskIdle EXCEPT !.st = "pending"]
TaskDone(rec) == [TaskIdle EXCEPT !.st = "done", !.rec = rec]
TaskWriting(rec, doc) ==
  [TaskIdle EXCEPT !.st = "writing", !.rec = rec, !.doc = doc]
TaskRejected(e) == [TaskIdle EXCEPT !.st = "rejected", !.err = <<e>>]

\* the catch block of syncPackage when every error is taken as a skip and
\* the batch goes on
CatchSyncPackageContinue(d, e) == TaskDone(<<>>)

\* the catch block of syncPackage without the test for ENOENT
CatchSyncPackageNoSkip(d, e) ==
  IF e.name = "SyntaxError"
  THEN TaskRejected(JsonParseError(d, PackageJsonPath(d), e))
  ELSE TaskRejected(FileSystemError(d, PackageJsonPath(d), e))

\* the catch block of syncPackage
CatchSyncPackage(d, e) ==
  IF e.code = "ENOENT" THEN TaskDone(<<>>)
  ELSE IF e.name = "SyntaxError"
  THEN TaskRejected(JsonParseError(d, PackageJsonPath(d), e))
  ELSE TaskRejected(FileSystemError(d, PackageJsonPath(d), e))

\* the errors of the two readFile calls of syncPackage that fail
ReadFailures(d, pf, jf) ==
  (IF Readable(pf) THEN {} ELSE {ReadError(pf, PackageJsonPath(d))})
  \cup (IF Readable(jf) THEN {} ELSE {ReadError(jf, JsrJsonPath(d))})

\* the task after the reads when the dryRun option is not looked at
AfterBodyAlwaysWrite(d, body, dry) ==
  IF body.thrown # <<>> THEN CatchSyncPackage(d, body.thrown[1])
  ELSE IF Len(body.changes) > 0
  THEN TaskWriting(<< ChangeRecord(body.changes, body.packageName) >>,
                   body.doc)
  ELSE TaskDone(<<>>)

\* the task after the reads when a dry run returns before the record is made
AfterBodyDryReturnsNull(d, body, dry) ==
  IF body.thrown # <<>> THEN CatchSyncPackage(d, body.thrown[1])
  ELSE IF Len(body.changes) > 0 /\ ~dry
  THEN TaskWriting(<< ChangeRecord(body.changes, body.packageName) >>,
                   body.doc)
  ELSE TaskDone(<<>>)

\* the task after the reads when a record is returned whether or not a
\* change is staged
AfterBodyAlwaysRecord(d, body, dry) ==
  IF body.thrown # <<>> THEN CatchSyncPackage(d, body.thrown[1])
  ELSE IF Len(body.changes) > 0 /\ ~dry
  THEN TaskWriting(<< ChangeRecord(body.changes, body.packageName) >>,
                   body.doc)
  ELSE TaskDone(<< ChangeRecord(body.changes, body.packageName) >>)

\* the task after the reads when the file is written whether or not a
\* change is staged
AfterBodyWriteUnchanged(d, body, dry) ==
  IF body.thrown # <<>> THEN CatchSyncPackage(d, body.thrown[1])
  ELSE IF ~dry
  THEN TaskWriting(IF Len(body.changes) > 0
                   THEN << ChangeRecord(body.changes, body.packageName) >>
                   ELSE <<>>,
                   body.doc)
  ELSE IF Len(body.changes) > 0
  THEN TaskDone(<< ChangeRecord(body.changes, body.packageName) >>)
  ELSE TaskDone(<<>>)

\* the task after the synchronous part that follows the reads
AfterBody(d, body, dry) ==
  IF body.thrown # <<>> THEN CatchSyncPackage(d, body.thrown[1])
  ELSE IF Len(body.changes) > 0
  THEN IF ~dry
       THEN TaskWriting(<< ChangeRecord(body.changes, body.packageName) >>,
                        body.doc)
       ELSE TaskDone(<< ChangeRecord(body.changes, body.packageName) >>)
  ELSE TaskDone(<<>>)

\* processSyncResults: the non-null results in listing order
RECURSIVE SyncedFrom(_, _)
SyncedFrom(tasks, i) ==
  IF i > Len(GetPackageNames) THEN <<>>
  ELSE tasks[GetPackageNames[i]].rec \o SyncedFrom(tasks, i + 1)

\* the result with the records from the last to the first
SyncResultReversed(syncedPackages) ==
  [syncedCount |-> Len(syncedPackages),
   syncedPackages |->
     [i \in 1..Len(syncedPackages) |->
        syncedPackages[Len(syncedPackages) + 1 - i]]]

SyncResult(syncedPackages) ==
  [syncedCount |-> Len(syncedPackages), syncedPackages |-> syncedPackages]

NoResult == SyncResult(<<>>)

(***************************************************************************)
(* The manifests the runs start from.                                      *)
(***************************************************************************)
V1 == <<"1", ".", "0">>
V2 == <<"2", ".", "0">>
V3 == <<"3", ".", "0">>

NameP == <<"@", "a", "/", "p">>
NameQ == <<"@", "a", "/", "q">>
NameX == <<"@", "e", "/", "x">>
NameJ == <<"@", "a", "/", "j">>

AliasQ == <<"q">>
AliasX == <<"x">>
AliasN == <<"n">>

Caret == <<"^">>
Tilde == <<"~">>
GreaterEq == <<">", "=">>

\* the operators of the reference grammar
Operators ==
  { <<>>, <<"^">>, <<"~">>, <<">", "=">>, <<">">>, <<"<", "=">>, <<"<">> }

JsrRef(name, op, version) == JSR \o name \o AT \o op \o version

Entry(k, v) == [k |-> k, v |-> v]

\* entries that are not JSR references
UnrelatedEntries ==
  { Entry(AliasN, Str(NPM \o NameQ \o AT \o Caret \o V1)),
    Entry(AliasN, Str(<<"q">>)),
    Entry(AliasN, Num(<<"1">>)) }

ImportEntries ==
  {Entry(AliasQ, Str(JsrRef(NameQ, op, V1))) : op \in Operators}
  \cup {Entry(NameX, Str(JsrRef(NameX, op, V1))) : op \in Operators}
  \cup { Entry(AliasX, Str(JsrRef(NameX, Caret, V1))),
         Entry(AliasQ, Str(JsrRef(NameQ, Caret, V2))),
         Entry(AliasQ, Str(JsrRef(NameQ, Caret, V1) \o <<"-", "b">>)) }
  \cup UnrelatedEntries

\* the entries that are combined in imports of more than one entry
CoreEntries ==
  { Entry(AliasQ, Str(JsrRef(NameQ, Caret, V1))),
    Entry(NameX, Str(JsrRef(NameX, Tilde, V1))),
    Entry(AliasX, Str(JsrRef(NameX, Caret, V1))),
    Entry(AliasN, Str(NPM \o NameQ \o AT \o Caret \o V1)) }

DistinctKeys(imports) ==
  \A i, j \in 1..Len(imports) : i # j => imports[i].k # imports[j].k

\* imports of more than one entry
LongImportLists ==
  UNION { {l \in [1..n -> CoreEntries] : DistinctKeys(l)} : n \in 2..MaxImports }

\* the ranges of the dependencies of package.json
Ranges == { V2, Caret \o V2, Tilde \o V2, GreaterEq \o V2, Caret \o V1 }

Dependencies(r) == [n \in {NameX} |-> r]

Package(pf, jf) == [p |-> pf, j |-> jf]

Ok(doc) == File("ok", doc)
PackageFile(st) == File(st, NoPackageJson)
JsrFile(st) == File(st, NoJsrJson)

\* packages that vary the version and name fields
VersionPackages ==
  { Package(Ok(PackageJson(pn, pv, EmptyMap)), Ok(JsrJson(jn, jv, hi, im))) :
      pn \in {Undef, Str(NameP)}, pv \in {Undef, Str(V1), Str(V2)},
      jn \in {Undef, Str(NameJ)}, jv \in {Undef, Str(V1)},
      hi \in {FALSE}, im \in { <<>> } }
  \cup
  { Package(Ok(PackageJson(pn, pv, EmptyMap)),
            Ok(JsrJson(Undef, Str(V1), TRUE,
                       << Entry(AliasQ, Str(JsrRef(NameQ, Caret, V1))) >>))) :
      pn \in {Undef, Str(NameP)}, pv \in {Undef, Str(V1), Str(V2)} }

ImportPackage(dependencies, imports) ==
  Package(Ok(PackageJson(Str(NameP), Str(V1), dependencies)),
          Ok(JsrJson(Str(NameP), Str(V1), TRUE, imports)))

\* packages that vary the imports and the dependencies: one entry without
\* dependencies, one entry under an alias of the dependencies with each
\* range, and the longer imports with one range
ImportPackages ==
  { ImportPackage(EmptyMap, <<>>) }
  \cup { ImportPackage(EmptyMap, <<e>>) : e \in ImportEntries }
  \cup { ImportPackage(Dependencies(r), <<e>>) :
           r \in Ranges, e \in {x \in ImportEntries : x.k \in {NameX, AliasX}} }
  \cup { ImportPackage(Dependencies(Caret \o V2), l) : l \in LongImportLists }

StalePackageJson == PackageJson(Str(NameP), Str(V2), EmptyMap)
StaleJsrJson ==
  JsrJson(Undef, Str(V1), TRUE,
          << Entry(AliasQ, Str(JsrRef(NameQ, Caret, V1))) >>)

\* packages that vary what reading and writing the files does
FaultyPackages ==
  { Package(File(ps, IF ps = "ok" THEN StalePackageJson ELSE NoPackageJson),
            File(js, IF js \in {"ok", "readonly"} THEN StaleJsrJson
                     ELSE NoJsrJson)) :
      ps \in {"absent", "eacces", "malformed", "null", "ok"},
      js \in {"absent", "eacces", "malformed", "null", "ok", "readonly"} }

\* a package that declares the name of its sibling, with another version,
\* and imports that name
SameNamePackage ==
  Package(Ok(PackageJson(Str(NameQ), Str(V3), EmptyMap)),
          Ok(JsrJson(Undef, Str(V3), TRUE,
                     << Entry(AliasQ, Str(JsrRef(NameQ, Caret, V1))) >>)))

MainPackages ==
  VersionPackages \cup ImportPackages \cup FaultyPackages
    \cup {SameNamePackage}

\* the sibling packages: they declare the name the imports refer to
InSyncSibling ==
  Package(Ok(PackageJson(Str(NameQ), Str(V2), EmptyMap)),
          Ok(JsrJson(Str(NameQ), Str(V2), FALSE, <<>>)))
StaleSibling ==
  Package(Ok(PackageJson(Str(NameQ), Str(V2), EmptyMap)),
          Ok(JsrJson(Undef, Str(V1), FALSE, <<>>)))
OtherVersionSibling ==
  Package(Ok(PackageJson(Str(NameQ), Str(V3), EmptyMap)), JsrFile("absent"))
NoPackageJsonSibling ==
  Package(PackageFile("absent"), Ok(JsrJson(Undef, Str(V1), FALSE, <<>>)))
MalformedSibling ==
  Package(Ok(PackageJson(Str(NameQ), Str(V2), EmptyMap)), JsrFile("malformed"))

SiblingPackages ==
  { InSyncSibling, StaleSibling, OtherVersionSibling, NoPackageJsonSibling,
    MalformedSibling }

\* the siblings that come before the sibling next to the main package
FirstSiblingPackages == { StaleSibling, OtherVersionSibling }

\* the trees: sibling packages followed by one main package
Trees ==
  { [d \in Dirs |-> IF d = NumDirs THEN m
                    ELSE IF d = NumDirs - 1 THEN s ELSE f[d]] :
      m \in MainPackages, s \in SiblingPackages,
      f \in [Dirs \ {NumDirs - 1, NumDirs} -> FirstSiblingPackages] }

(***************************************************************************)
(* version-compare: compareVersions, extractVersion, meetsMinimumVersion.  *)
(***************************************************************************)
DigitChars == <<"0", "1", "2", "3", "4", "5", "6", "7", "8", "9">>

\* Number(part) || 0 of a part of a version split at the dots: the parts
\* of a run of digits and dots are digits only, Number("") is 0, and a part
\* that is not a number gives NaN, which || turns into 0
RECURSIVE Digits(_, _)
Digits(part, acc) ==
  IF part = <<>> THEN acc
  ELSE LET n == CHOOSE n \in 0..9 : DigitChars[n + 1] = Head(part)
       IN Digits(Tail(part), 10 * acc + n)

NumberOrZero(part) ==
  IF \A i \in 1..Len(part) : part[i] \in Digit THEN Digits(part, 0) ELSE 0

\* v.split('.')
RECURSIVE Split(_)
Split(v) ==
  LET n == CHOOSE n \in 0..Len(v) :
             /\ \A i \in 1..n : v[i] # "."
             /\ n = Len(v) \/ v[n + 1] = "."
  IN IF n = Len(v) THEN << v >>
     ELSE << SubSeq(v, 1, n) >> \o Split(SubSeq(v, n + 2, Len(v)))

\* parts[i] || 0, for i counted from 1
PartOrZero(parts, i) == IF i <= Len(parts) THEN NumberOrZero(parts[i]) ELSE 0

Max(a, b) == IF a >= b THEN a ELSE b

\* the loop of compareVersions from the part i up to the part last
RECURSIVE CompareFrom(_, _, _, _)
CompareFrom(parts1, parts2, i, last) ==
  IF i > last THEN 0
  ELSE IF PartOrZero(parts1, i) > PartOrZero(parts2, i) THEN 1
  ELSE IF PartOrZero(parts1, i) < PartOrZero(parts2, i) THEN -1
  ELSE CompareFrom(parts1, parts2, i + 1, last)

\* compareVersions
CompareVersions(v1, v2) ==
  CompareFrom(Split(v1), Split(v2), 1, Max(Len(Split(v1)), Len(Split(v2))))

\* [\^~>=] and \s of the regular expression of extractVersion
RangeOpChar == {"^", "~", ">", "="}
SpaceChar == {" "}

\* the match of the regular expression of extractVersion that starts at p:
\* any number of operator characters, any number of spaces, then one or
\* more version characters, which are captured (the classes are disjoint,
\* so each run is maximal)
MatchVersionAt(s, p) ==
  LET a == p + RunLen(s, p, RangeOpChar)
      b == a + RunLen(s, a, SpaceChar)
      n == RunLen(s, b, VersionChar)
  IN IF n >= 1 THEN << SubSeq(s, b, b + n - 1) >> ELSE <<>>

\* extractVersion: versionRange.match(...) gives the leftmost match, the
\* expression has no anchor; <<>> is null
ExtractVersion(versionRange) ==
  IF \A p \in 1..Len(versionRange) : MatchVersionAt(versionRange, p) = <<>>
  THEN <<>>
  ELSE MatchVersionAt(versionRange,
         CHOOSE p \in 1..Len(versionRange) :
           /\ MatchVersionAt(versionRange, p) # <<>>
           /\ \A q \in 1..(p - 1) : MatchVersionAt(versionRange, q) = <<>>)

\* meetsMinimumVersion
MeetsMinimumVersion(versionRange, minimumVersion) ==
  LET version == ExtractVersion(versionRange)
  IN IF version = <<>> THEN FALSE
     ELSE CompareVersions(version[1], minimumVersion) >= 0

(***************************************************************************)
(* npm2jsr: the table of the packages that have a JSR equivalent (two of   *)
(* its entries: one whose JSR name differs from the npm name, one whose    *)
(* JSR name is the npm name), getJsrPackageInfo and toJsrDependency.       *)
(***************************************************************************)
JsrPackageInfo(jsrPackage, minimumVersion) ==
  [jsrPackage |-> jsrPackage, minimumVersion |-> minimumVersion]

NpmToJsrMapping ==
  [n \in {"zod", "@eslint/json"} |->
     IF n = "zod" THEN JsrPackageInfo("@zod/zod", <<"3", ".", "0", ".", "0">>)
     ELSE JsrPackageInfo("@eslint/json", <<"0", ".", "2", ".", "0">>)]

\* <<>> is null
GetJsrPackageInfo(npmPackage) ==
  IF npmPackage \in DOMAIN NpmToJsrMapping
  THEN << NpmToJsrMapping[npmPackage] >> ELSE <<>>

\* `jsr:${version}`
ToJsrDependency(version) == JSR \o version

(***************************************************************************)
(* The prefer-jsr rule.  A JSON document is a sequence of members (key k,  *)
(* value v); a value is a string, a number or an object (its members).     *)
(* An entry is named by its path: the positions of the members from the    *)
(* top of the document down to it.                                         *)
(***************************************************************************)
Obj(members) == [t |-> "obj", members |-> members]

DependencyGroups ==
  {"dependencies", "devDependencies", "optionalDependencies",
   "peerDependencies"}

\* filename.endsWith('package.json'), the file name given in pieces
EndsWithPackageJson(filename) ==
  Len(filename) >= 1 /\ filename[Len(filename)] = "package.json"

\* version.startsWith('jsr:')
StartsWithJsr(version) ==
  Len(version) >= Len(JSR) /\ SubSeq(version, 1, Len(JSR)) = JSR

\* the member at a path of the document
MemberAt(doc, path) ==
  IF Len(path) = 1 THEN doc[path[1]]
  ELSE IF Len(path) = 2 THEN doc[path[1]].v.members[path[2]]
  ELSE doc[path[1]].v.members[path[2]].v.members[path[3]]

\* the paths of the members of the object at a path
MembersOf(doc, path) ==
  IF MemberAt(doc, path).v.t = "obj"
  THEN {path \o <<i>> : i \in 1..Len(MemberAt(doc, path).v.members)}
  ELSE {}

TopLevel(doc) == {<<i>> : i \in 1..Len(doc)}
SecondLevel(doc) == UNION {MembersOf(doc, p) : p \in TopLevel(doc)}
ThirdLevel(doc) == UNION {MembersOf(doc, p) : p \in SecondLevel(doc)}

Report(path, npmPackage, jsrPackage, jsrDependency) ==
  [path |-> path, npmPackage |-> npmPackage, jsrPackage |-> jsrPackage,
   jsrDependency |-> jsrDependency]

\* checkDependency without the test of the jsr: prefix
CheckDependencyAnyValue(path, npmPackage, version, options) ==
  IF npmPackage \in options.ignore THEN {}
  ELSE
    LET custom ==
          IF npmPackage \in DOMAIN options.customMappings
          THEN << options.customMappings[npmPackage] >> ELSE <<>>
        packageInfo == GetJsrPackageInfo(npmPackage)
        jsrEquivalent ==
          IF custom # <<>> THEN custom
          ELSE IF /\ packageInfo # <<>>
                  /\ MeetsMinimumVersion(version,
                                         packageInfo[1].minimumVersion)
          THEN << packageInfo[1].jsrPackage >>
          ELSE <<>>
    IN IF jsrEquivalent # <<>>
       THEN {Report(path, npmPackage, jsrEquivalent[1],
                    ToJsrDependency(version))}
       ELSE {}

\* checkDependency: the reports it makes for the entry at the path
CheckDependency(path, npmPackage, version, options) ==
  IF npmPackage \in options.ignore THEN {}
  ELSE IF StartsWithJsr(version) THEN {}
  ELSE
    LET custom ==
          IF npmPackage \in DOMAIN options.customMappings
          THEN << options.customMappings[npmPackage] >> ELSE <<>>
        packageInfo == GetJsrPackageInfo(npmPackage)
        jsrEquivalent ==
          IF custom # <<>> THEN custom
          ELSE IF /\ packageInfo # <<>>
                  /\ MeetsMinimumVersion(version,
                                         packageInfo[1].minimumVersion)
          THEN << packageInfo[1].jsrPackage >>
          ELSE <<>>
    IN IF jsrEquivalent # <<>>
       THEN {Report(path, npmPackage, jsrEquivalent[1],
                    ToJsrDependency(version))}
       ELSE {}

\* the handler 'Document > Object > Member' (the @eslint/json parser): it
\* is called for the members at the top of the document
DocumentObjectMember(doc, options) ==
  UNION { UNION { IF MemberAt(doc, m).v.t = "str"
                  THEN CheckDependency(m, MemberAt(doc, m).k,
                                       MemberAt(doc, m).v.s, options)
                  ELSE {} : m \in MembersOf(doc, p) } :
          p \in {q \in TopLevel(doc) : MemberAt(doc, q).k \in DependencyGroups} }

\* the handler JSONProperty (the jsonc-eslint-parser): it is called for
\* every property of the document, and looks at the property that holds
\* the object the property is in
JSONProperty(doc, options) ==
  UNION { IF /\ MemberAt(doc, SubSeq(m, 1, Len(m) - 1)).k \in DependencyGroups
             /\ MemberAt(doc, m).v.t = "str"
          THEN CheckDependency(m, MemberAt(doc, m).k, MemberAt(doc, m).v.s,
                               options)
          ELSE {} : m \in SecondLevel(doc) \cup ThirdLevel(doc) }

\* create(context): the reports of the rule on a file
PreferJsrRule(filename, parser, doc, options) ==
  IF ~EndsWithPackageJson(filename) THEN {}
  ELSE IF parser = "@eslint/json" THEN DocumentObjectMember(doc, options)
  ELSE JSONProperty(doc, options)

\* the fix of a report: the key is replaced when the JSR name differs from
\* the npm name, the value is replaced by the JSR dependency
FixedMember(member, report) ==
  [k |-> IF report.npmPackage # report.jsrPackage THEN report.jsrPackage
         ELSE member.k,
   v |-> Str(report.jsrDependency)]

\* the document after the fix of a report is applied
ApplyFix(doc, report) ==
  LET p == report.path
      m == FixedMember(MemberAt(doc, p), report)
  IN IF Len(p) = 2
     THEN [doc EXCEPT ![p[1]].v.members[p[2]] = m]
     ELSE [doc EXCEPT ![p[1]].v.members[p[2]].v.members[p[3]] = m]

(***************************************************************************)
(* State.                                                                  *)
(***************************************************************************)
VARIABLES
  packageJson,  \* packageJson[d]: the file <d>/package.json
  jsrJson,      \* jsrJson[d]: the file <d>/jsr.json
  pc,           \* "idle", "indexing", "syncing", "resolved", "rejected"
  run,          \* the number of runs of syncJsrJson started
  dryRun,       \* the dryRun option of the current run
  infoTask,     \* infoTask[d]: the readPackageInfo task of d
  packageMap,   \* the index built by buildPackageMap
  syncTask,     \* syncTask[d]: the syncPackage task of d
  log,          \* the lines given to the log callback in the current run
  outcome,      \* what the promise of syncJsrJson settled with
  jsrJson0,     \* the jsr.json files when the current run started
  history,      \* the completed runs
  lint,         \* the run of the prefer-jsr rule on a file
  check,        \* the call of meetsMinimumVersion
  script,       \* the run of the version script
  parse         \* the call of parseJsrImport and of createJsrImport

vars ==
  << packageJson, jsrJson, pc, run, dryRun, infoTask, packageMap, syncTask,
     log, outcome, jsrJson0, history, lint, check, script, parse >>

\* the variables of syncJsrJson
syncVars ==
  << packageJson, jsrJson, pc, run, dryRun, infoTask, packageMap, syncTask,
     log, outcome, jsrJson0, history >>

\* no file is linted
NoLint ==
  [pc |-> "idle", filename |-> <<>>, parser |-> "", options |-> <<>>,
   doc |-> <<>>, reports |-> {}, before |-> <<>>, fixed |-> <<>>]

\* meetsMinimumVersion is not called
NoCheck ==
  [pc |-> "idle", versionRange |-> <<>>, minimumVersion |-> <<>>,
   result |-> FALSE]

\* parseJsrImport is not called
NoParse ==
  [pc |-> "idle", s |-> <<>>, result |-> <<>>, created |-> <<>>,
   reparsed |-> <<>>]

\* the version script is not run
NoScript ==
  [pc |-> "idle", dryRun |-> FALSE, versionData |-> "", steps |-> <<>>,
   exitCode |-> <<>>]

InfoIdle == [st |-> "idle", info |-> <<>>, err |-> <<>>]
InfoPending == [InfoIdle EXCEPT !.st = "pending"]

NoOutcome == [st |-> "none", result |-> NoResult, err |-> <<>>]
ResolvedWith(r) == [st |-> "resolved", result |-> r, err |-> <<>>]
RejectedWith(e) == [st |-> "rejected", result |-> NoResult, err |-> <<e>>]

Init ==
  /\ \E t \in Trees :
       /\ packageJson = [d \in Dirs |-> t[d].p]
       /\ jsrJson = [d \in Dirs |-> t[d].j]
  /\ pc = "idle"
  /\ run = 0
  /\ dryRun = FALSE
  /\ infoTask = [d \in Dirs |-> InfoIdle]
  /\ packageMap = EmptyMap
  /\ syncTask = [d \in Dirs |-> TaskIdle]
  /\ log = <<>>
  /\ outcome = NoOutcome
  /\ jsrJson0 = jsrJson
  /\ history = <<>>
  /\ lint = NoLint
  /\ check = NoCheck
  /\ script = NoScript
  /\ parse = NoParse

(***************************************************************************)
(* syncJsrJson is called: the listing is read and the readPackageInfo      *)
(* tasks of buildPackageMap are started.  A run starts when no run is in   *)
(* progress; the files are not modified between the runs.                  *)
(***************************************************************************)
\* the lines of a log with the number of times each was emitted
Count(line, lines) == Cardinality({i \in 1..Len(lines) : lines[i] = line})

Lines(lines) ==
  [l \in {lines[i] : i \in 1..Len(lines)} |-> Count(l, lines)]

\* what is kept of a completed run: its option, the files it started from,
\* its result and the lines it logged
Completed ==
  [dryRun |-> dryRun, result |-> outcome.result, lines |-> Lines(log),
   before |-> jsrJson0]

Start(dry) ==
  /\ pc \in {"idle", "resolved"}
  /\ run < MaxRuns
  /\ run' = run + 1
  /\ dryRun' = dry
  /\ pc' = "indexing"
  /\ infoTask' = [d \in Dirs |-> InfoPending]
  /\ syncTask' = [d \in Dirs |-> TaskIdle]
  /\ packageMap' = EmptyMap
  /\ log' = <<>>
  /\ outcome' = NoOutcome
  /\ jsrJson0' = jsrJson
  /\ history' = IF pc = "resolved" THEN Append(history, Completed) ELSE history
  /\ UNCHANGED << packageJson, jsrJson, lint, check,
                  script, parse >>

\* Promise.all rejects with the first rejection of its tasks
RejectRun(e) ==
  /\ pc' = "rejected"
  /\ outcome' = RejectedWith(e)

(***************************************************************************)
(* The readPackageInfo task of d settles.                                  *)
(***************************************************************************)
ReadInfo(d) ==
  /\ infoTask[d].st = "pending"
  /\ LET r == ReadPackageInfo(d, packageJson[d])
     IN /\ infoTask' = [infoTask EXCEPT ![d] = r]
        /\ IF r.st = "rejected" /\ pc = "indexing"
           THEN RejectRun(r.err[1])
           ELSE UNCHANGED << pc, outcome >>
  /\ UNCHANGED << packageJson, jsrJson, run, dryRun, packageMap, syncTask,
                  log, jsrJson0, history, lint, check,
                  script, parse >>

(***************************************************************************)
(* All readPackageInfo tasks are done: the index is built and the          *)
(* syncPackage tasks are started.                                          *)
(***************************************************************************)
BuildIndex ==
  /\ pc = "indexing"
  /\ \A d \in Dirs : infoTask[d].st = "done"
  /\ packageMap' = BuildPackageMap(infoTask)
  /\ syncTask' = [d \in Dirs |-> TaskPending]
  /\ pc' = "syncing"
  /\ UNCHANGED << packageJson, jsrJson, run, dryRun, infoTask, log, outcome,
                  jsrJson0, history, lint, check,
                  script, parse >>

\* a sync task settles with t: a rejection rejects the run if it is the first
SettleSync(d, t) ==
  /\ syncTask' = [syncTask EXCEPT ![d] = t]
  /\ IF t.st = "rejected" /\ pc = "syncing"
     THEN RejectRun(t.err[1])
     ELSE UNCHANGED << pc, outcome >>

\* syncPackage of d when the versions of the index are read from the
\* jsr.json files as they are when the task reads, not from the index
\* built before the tasks started
SyncPackageLiveIndex(d) ==
  /\ syncTask[d].st = "pending"
  /\ LET info(e) ==
           IF /\ IsObject(packageJson[e]) /\ IsObject(jsrJson[e])
              /\ Truthy(packageJson[e].doc.name)
              /\ Truthy(jsrJson[e].doc.version)
           THEN << [name |-> packageJson[e].doc.name.s,
                    version |-> jsrJson[e].doc.version.s] >>
           ELSE <<>>
         liveMap == BuildPackageMap([e \in Dirs |-> Done(info(e))])
         failures == ReadFailures(d, packageJson[d], jsrJson[d])
         body == SyncPackageBody(d, packageJson[d], jsrJson[d], liveMap)
     IN IF failures # {}
        THEN /\ \E e \in failures : SettleSync(d, CatchSyncPackage(d, e))
             /\ UNCHANGED log
        ELSE /\ SettleSync(d, AfterBody(d, body, dryRun))
             /\ log' = log \o body.logs
  /\ UNCHANGED << packageJson, jsrJson, run, dryRun, infoTask, packageMap,
                  jsrJson0, history, lint, check,
                  script, parse >>

(***************************************************************************)
(* syncPackage of d: the two reads settle.  If one fails, the task catches *)
(* the error of the read that failed first; otherwise the documents are    *)
(* synchronised and, when changes are staged and the run is not a dry run, *)
(* writeFile is called.                                                    *)
(***************************************************************************)
SyncPackage(d) ==
  /\ syncTask[d].st = "pending"
  /\ LET failures == ReadFailures(d, packageJson[d], jsrJson[d])
         body == SyncPackageBody(d, packageJson[d], jsrJson[d], packageMap)
     IN IF failures # {}
        THEN /\ \E e \in failures : SettleSync(d, CatchSyncPackage(d, e))
             /\ UNCHANGED log
        ELSE /\ SettleSync(d, AfterBody(d, body, dryRun))
             /\ log' = log \o body.logs
  /\ UNCHANGED << packageJson, jsrJson, run, dryRun, infoTask, packageMap,
                  jsrJson0, history, lint, check,
                  script, parse >>

\* the writeFile of syncPackage of d when only the version of the synced
\* document is written
WriteJsrJsonVersionOnly(d) ==
  /\ syncTask[d].st = "writing"
  /\ IF jsrJson[d].st = "readonly"
     THEN /\ SettleSync(d, CatchSyncPackage(d,
                             ErrnoException("EACCES", JsrJsonPath(d))))
          /\ UNCHANGED jsrJson
     ELSE /\ SettleSync(d, TaskDone(syncTask[d].rec))
          /\ jsrJson' = [jsrJson EXCEPT ![d] =
               File("ok", [jsrJson[d].doc EXCEPT
                             !.version = syncTask[d].doc.version])]
  /\ UNCHANGED << packageJson, run, dryRun, infoTask, packageMap, log,
                  jsrJson0, history, lint, check,
                  script, parse >>

(***************************************************************************)
(* The writeFile of syncPackage of d settles.                              *)
(***************************************************************************)
WriteJsrJson(d) ==
  /\ syncTask[d].st = "writing"
  /\ IF jsrJson[d].st = "readonly"
     THEN /\ SettleSync(d, CatchSyncPackage(d,
                             ErrnoException("EACCES", JsrJsonPath(d))))
          /\ UNCHANGED jsrJson
     ELSE /\ SettleSync(d, TaskDone(syncTask[d].rec))
          /\ jsrJson' = [jsrJson EXCEPT ![d] = File("ok", syncTask[d].doc)]
  /\ UNCHANGED << packageJson, run, dryRun, infoTask, packageMap, log,
                  jsrJson0, history, lint, check,
                  script, parse >>

(***************************************************************************)
(* All syncPackage tasks are done: processSyncResults logs the summary and *)
(* syncJsrJson resolves.                                                   *)
(***************************************************************************)
ProcessSyncResults ==
  /\ pc = "syncing"
  /\ \A d \in Dirs : syncTask[d].st = "done"
  /\ LET syncedPackages == SyncedFrom(syncTask, 1)
     IN /\ log' = Append(log, CreateSummaryMessage(Len(syncedPackages)))
        /\ outcome' = ResolvedWith(SyncResult(syncedPackages))
  /\ pc' = "resolved"
  /\ UNCHANGED << packageJson, jsrJson, run, dryRun, infoTask, packageMap,
                  syncTask, jsrJson0, history, lint, check,
                  script, parse >>

Next ==
  \/ \E dry \in BOOLEAN : Start(dry)
  \/ \E d \in Dirs : ReadInfo(d)
  \/ BuildIndex
  \/ \E d \in Dirs : SyncPackage(d)
  \/ \E d \in Dirs : WriteJsrJson(d)
  \/ ProcessSyncResults

Spec == Init /\ [][Next]_vars

(***************************************************************************)
(* Definitions used to state the properties.                               *)
(***************************************************************************)
IsPrefix(p, s) == Len(p) <= Len(s) /\ SubSeq(s, 1, Len(p)) = p

\* both manifests of d held a JSON object when the current run started
BothManifests(d) == IsObject(packageJson[d]) /\ IsObject(jsrJson0[d])

\* the imports entries of d when the current run started
ImportsBefore(d) ==
  IF jsrJson0[d].doc.hasImports THEN jsrJson0[d].doc.imports ELSE <<>>

\* the version the index gives the name n, read from the package.json
\* files: that of the last package in listing order that declares n
Declares(d, n) ==
  /\ IsObject(packageJson[d])
  /\ packageJson[d].doc.name = Str(n)
  /\ Truthy(packageJson[d].doc.version)

Indexed(n) == \E d \in Dirs : Declares(d, n)

IndexedVersion(n) ==
  LET last == CHOOSE d \in Dirs :
                Declares(d, n) /\ \A e \in Dirs : Declares(e, n) => e <= d
  IN packageJson[last].doc.version.s

\* the changes the sync task of d has staged
ChangesOf(d) ==
  IF syncTask[d].rec = <<>> THEN <<>> ELSE syncTask[d].rec[1].changes

\* the sync task of d has gone through the documents of d
Synced(d) == BothManifests(d) /\ syncTask[d].st \in {"writing", "done"}

\* the jsr.json document the sync task of d has computed, where it can be
\* observed: in the task while the write is in flight, in the file after it
Written(d) == ~dryRun /\ syncTask[d].st = "done" /\ syncTask[d].rec # <<>>

\* the previous completed run
Previous == history[Len(history)]

\* C1: after a first run with dryRun = false has completed, a second run
\* on the resulting tree returns syncedCount = 0 and no synced package.
C1_Idempotence ==
  (pc = "resolved" /\ run = 2 /\ ~history[1].dryRun)
    => /\ outcome.result.syncedCount = 0
       /\ outcome.result.syncedPackages = <<>>

\* C2: after a successful run that is not a dry run, every imports entry
\* of a package with both manifests that parses as a reference to an indexed
\* name Q holds "jsr:" Q "@" <operator of the old value> <version of Q>,
\* and the jsr.json version equals the package.json version when present.
C2_CrossPackagePropagation ==
  (pc = "resolved" /\ ~dryRun) =>
    \A d \in Dirs : BothManifests(d) =>
      /\ \A i \in 1..Len(ImportsBefore(d)) :
           LET old == ImportsBefore(d)[i]
               parsed == ParseJsrImport(IF old.v.t = "str" THEN old.v.s
                                        ELSE <<>>)
           IN (parsed # <<>> /\ Indexed(parsed[1].packageName)) =>
                jsrJson[d].doc.imports[i] =
                  Entry(old.k,
                        Str(JSR \o parsed[1].packageName \o AT
                              \o parsed[1].versionPrefix
                              \o IndexedVersion(parsed[1].packageName)))
      /\ packageJson[d].doc.version # Undef =>
           jsrJson[d].doc.version = packageJson[d].doc.version

\* a run that is not a dry run has completed and has written a reference to
\* a sibling package with the sibling's version
C2_Witness ==
  /\ pc = "resolved" /\ ~dryRun
  /\ \E d \in Dirs :
       /\ Written(d)
       /\ \E i \in 1..Len(ImportsBefore(d)) :
            /\ ImportsBefore(d)[i].v = Str(JsrRef(NameQ, Tilde, V1))
            /\ jsrJson[d].doc.imports[i].v = Str(JsrRef(NameQ, Tilde, V2))
       /\ \E e \in Dirs :
            /\ jsrJson0[e].st = "ok" /\ jsrJson0[e].doc.version = Str(V1)
            /\ jsrJson[e].doc.version = Str(V2)

Untouched(d, i) ==
  /\ IsObject(jsrJson[d]) /\ jsrJson[d].doc.imports[i] = ImportsBefore(d)[i]
  /\ syncTask[d].st = "writing" =>
       syncTask[d].doc.imports[i] = ImportsBefore(d)[i]

\* no change of d is a change of the imports entry with key k
NoChangeOf(d, k) ==
  \A c \in 1..Len(ChangesOf(d)) :
    ~IsPrefix(<<"imports[">> \o k \o <<"]: ">>, ChangesOf(d)[c])

StringValue(v) == IF v.t = "str" THEN v.s ELSE <<>>

\* the entry e of d is a reference to a name that is not in the index
MissingDependency(e) ==
  /\ ParseJsrImport(StringValue(e.v)) # <<>>
  /\ ~Indexed(ParseJsrImport(StringValue(e.v))[1].packageName)

\* the dependencies of the package.json of d have a range under the key k
HasDependency(d, k) ==
  /\ k \in DOMAIN packageJson[d].doc.dependencies
  /\ packageJson[d].doc.dependencies[k] # <<>>

\* C4 as stated: a reference to a name that is not in the index is left
\* untouched, stages no change and raises no error, whatever else the
\* manifests contain.
C4_MissingDependencyUntouched ==
  \A d \in Dirs : Synced(d) =>
    \A i \in 1..Len(ImportsBefore(d)) :
      MissingDependency(ImportsBefore(d)[i]) =>
        /\ Untouched(d, i)
        /\ NoChangeOf(d, ImportsBefore(d)[i].k)

\* C4 amended: a reference to a name that is not in the index is left
\* untouched, stages no change and raises no error, unless its alias is the
\* referenced package name and the dependencies of package.json have an
\* entry under that alias.
C4_MissingDependencyTolerance ==
  \A d \in Dirs :
    /\ Synced(d) =>
         \A i \in 1..Len(ImportsBefore(d)) :
           LET e == ImportsBefore(d)[i]
           IN ( /\ MissingDependency(e)
                /\ ~( /\ ParseJsrImport(StringValue(e.v))[1].packageName = e.k
                      /\ HasDependency(d, e.k) ) )
              => Untouched(d, i) /\ NoChangeOf(d, e.k)
    /\ ( /\ packageJson[d].st = "ok" /\ jsrJson0[d].st = "ok"
         /\ \E i \in 1..Len(ImportsBefore(d)) :
              MissingDependency(ImportsBefore(d)[i]) )
       => syncTask[d].st # "rejected"

\* a package has been written with another change while its reference to a
\* name that is not in the index is as before
C4_Witness ==
  /\ pc = "resolved"
  /\ \E d \in Dirs :
       /\ Written(d)
       /\ \E i \in 1..Len(ImportsBefore(d)) :
            /\ ImportsBefore(d)[i] = Entry(AliasX, Str(JsrRef(NameX, Caret, V1)))
            /\ HasDependency(d, NameX)
            /\ jsrJson[d].doc.imports[i] = ImportsBefore(d)[i]

\* one leading "^" or "~" removed
Stripped(r) == IF r[1] \in {"^", "~"} THEN SubSeq(r, 2, Len(r)) ELSE r

\* C5: a reference whose alias is its package name, whose name is not in the
\* index and for which the dependencies of package.json have a range under
\* the alias is rewritten to "jsr:<name>@<its operator><range without one
\* leading ^ or ~>", and "imports[<alias>]: <old> -> <new>" is staged, when
\* the new value differs from the old one.
C5_ExternalDependencySync ==
  \A d \in Dirs : Synced(d) =>
    \A i \in 1..Len(ImportsBefore(d)) :
      \A op \in Operators, old \in {V1, V2, V3} :
        LET e == ImportsBefore(d)[i]
        IN ( /\ e.v = Str(JsrRef(e.k, op, old))
             /\ ~Indexed(e.k)
             /\ HasDependency(d, e.k) )
           => LET new == JSR \o e.k \o AT \o op
                           \o Stripped(packageJson[d].doc.dependencies[e.k])
              IN new # e.v.s =>
                   /\ \E c \in 1..Len(ChangesOf(d)) :
                        ChangesOf(d)[c] =
                          <<"imports[">> \o e.k \o <<"]: ">> \o e.v.s
                            \o <<" -> ">> \o new
                   /\ syncTask[d].st = "writing" =>
                        syncTask[d].doc.imports[i] = Entry(e.k, Str(new))
                   /\ Written(d) =>
                        jsrJson[d].doc.imports[i] = Entry(e.k, Str(new))

\* a reference with "~" has been rewritten from a "^" range of package.json
C5_Witness ==
  \E d \in Dirs :
    /\ Written(d)
    /\ packageJson[d].doc.dependencies = Dependencies(Caret \o V2)
    /\ \E i \in 1..Len(ImportsBefore(d)) :
         /\ ImportsBefore(d)[i] = Entry(NameX, Str(JsrRef(NameX, Tilde, V1)))
         /\ jsrJson[d].doc.imports[i] = Entry(NameX, Str(JsrRef(NameX, Tilde, V2)))

C7_DryRunNonMutation ==
  [][dryRun' => (packageJson' = packageJson /\ jsrJson' = jsrJson)]_vars

\* a dry run has completed, reports changes and has left the files as they
\* were
C7_Witness ==
  /\ pc = "resolved" /\ dryRun
  /\ outcome.result.syncedCount > 0
  /\ jsrJson = jsrJson0

\* C8: a dry run and the run without dryRun that follows it on the same
\* files return the same SyncResult and emit the same log lines.
C8_DryRunEquivalence ==
  ( /\ pc = "resolved" /\ ~dryRun
    /\ history # <<>> /\ Previous.dryRun /\ Previous.before = jsrJson0 )
  => /\ outcome.result = Previous.result
     /\ Lines(log) = Previous.lines

\* a run that has written changes has completed after a dry run
C8_Witness ==
  /\ pc = "resolved" /\ ~dryRun
  /\ history # <<>> /\ Previous.dryRun /\ Previous.before = jsrJson0
  /\ outcome.result.syncedCount > 0
  /\ jsrJson # jsrJson0

\* the run of syncJsrJson has settled
Settled == pc \in {"resolved", "rejected"}

\* the package d is skipped: it has no ChangeRecord, none of its files is
\* written, none of its tasks raises an error, and it is out of the index
\* when it has no package.json
Skipped(d) ==
  /\ syncTask[d].rec = <<>> /\ syncTask[d].st # "writing"
  /\ jsrJson[d] = jsrJson0[d]
  /\ infoTask[d].st # "rejected" /\ syncTask[d].st # "rejected"
  /\ outcome.st = "rejected" => outcome.err[1].pkg # d
  /\ packageJson[d].st = "absent" => infoTask[d].info = <<>>

\* C9 as stated: a package directory that lacks package.json or lacks
\* jsr.json is skipped, without error.
C9_MissingManifestSkipped ==
  \A d \in Dirs :
    (packageJson[d].st = "absent" \/ jsrJson0[d].st = "absent") => Skipped(d)

\* C9 amended: a package directory that lacks package.json, with a jsr.json
\* that is not unreadable, or that lacks jsr.json, with a package.json that
\* is absent or holds a JSON object, is skipped without error, and the other
\* packages are synced.
C9_NotFoundSkip ==
  \A d \in Dirs :
    ( \/ packageJson[d].st = "absent" /\ jsrJson0[d].st # "eacces"
      \/ jsrJson0[d].st = "absent" /\ packageJson[d].st \in {"absent", "ok"} )
    => Skipped(d)

\* a run has completed in which a package without package.json was skipped
\* and another package was written
C9_Witness ==
  /\ pc = "resolved"
  /\ \E d, e \in Dirs :
       /\ packageJson[d].st = "absent" /\ jsrJson0[d].st = "ok"
       /\ syncTask[d] = TaskDone(<<>>)
       /\ Written(e) /\ jsrJson[e] # jsrJson0[e]

\* the error syncJsrJson rejected with
RejectedKind == outcome.err[1].kind

\* at most one manifest of the tree is at fault (neither absent nor a JSON
\* object that can be written)
Faulty(f) == f.st \in {"malformed", "eacces", "null", "readonly"}

SingleFault ==
  Cardinality({d \in Dirs : Faulty(packageJson[d])})
    + Cardinality({d \in Dirs : Faulty(jsrJson0[d])}) <= 1

\* C10 as stated, on the trees with at most one manifest at fault: whenever
\* a manifest exists but is not valid JSON, syncJsrJson rejects with a
\* JsonParseError; whenever reading or writing a manifest fails with an I/O
\* error other than not-found, it rejects with a FileSystemError that carries
\* the underlying error.
C10_MalformedAlwaysRejected ==
  (Settled /\ SingleFault) =>
    /\ (\E d \in Dirs :
          packageJson[d].st = "malformed" \/ jsrJson0[d].st = "malformed")
       => outcome.st = "rejected" /\ RejectedKind = "JsonParseError"
    /\ (\E d \in Dirs :
          \/ infoTask[d].st = "rejected" /\ infoTask[d].err[1].cause.code = "EACCES"
          \/ syncTask[d].st = "rejected" /\ syncTask[d].err[1].cause.code = "EACCES")
       => /\ outcome.st = "rejected" /\ RejectedKind = "FileSystemError"
          /\ outcome.err[1].cause.code = "EACCES"

\* every fault of the tree is text that is not JSON
OnlyMalformed ==
  \A d \in Dirs : /\ packageJson[d].st \in {"absent", "ok", "malformed"}
                  /\ jsrJson0[d].st \in {"absent", "ok", "malformed"}

\* every fault of the tree is an I/O error other than not-found
OnlyAccessFailures ==
  \A d \in Dirs : /\ packageJson[d].st \in {"absent", "ok", "eacces"}
                  /\ jsrJson0[d].st \in {"absent", "ok", "readonly", "eacces"}

\* C10 amended: syncJsrJson rejects whenever a package.json is not valid
\* JSON, or a jsr.json is not valid JSON beside a package.json that holds a
\* JSON object, with a JsonParseError when invalid JSON is the only kind of
\* fault in the tree; it rejects whenever a package.json cannot be read, a
\* jsr.json cannot be read beside a readable package.json, or a write fails,
\* with a FileSystemError that carries the underlying error when such I/O
\* errors are the only kind of fault in the tree.
C10_ErrorClassification ==
  /\ Settled =>
       /\ (\E d \in Dirs :
             \/ packageJson[d].st = "malformed"
             \/ IsObject(packageJson[d]) /\ jsrJson0[d].st = "malformed")
          => outcome.st = "rejected"
       /\ (\E d \in Dirs :
             \/ packageJson[d].st = "eacces"
             \/ Readable(packageJson[d]) /\ jsrJson0[d].st = "eacces")
          => outcome.st = "rejected"
  /\ (\E d \in Dirs : syncTask[d].st = "rejected" \/ infoTask[d].st = "rejected")
       => outcome.st = "rejected"
  /\ (outcome.st = "rejected" /\ OnlyMalformed)
       => /\ RejectedKind = "JsonParseError"
          /\ outcome.err[1].cause.name = "SyntaxError"
  /\ (outcome.st = "rejected" /\ OnlyAccessFailures)
       => /\ RejectedKind = "FileSystemError"
          /\ outcome.err[1].cause = ErrnoException("EACCES",
                                                   outcome.err[1].cause.path)

\* syncJsrJson has rejected with a JsonParseError for a jsr.json that is not
\* valid JSON
C10_Witness ==
  /\ pc = "rejected"
  /\ RejectedKind = "JsonParseError"
  /\ outcome.err[1].cause = SyntaxError(JsrJsonPath(outcome.err[1].pkg))
  /\ jsrJson[outcome.err[1].pkg].st = "malformed"

\* C11: a JsonParseError names the file whose content is not valid JSON:
\* the error raised for invalid JSON in <pkg>/jsr.json has the path
\* <pkg>/jsr.json, the one raised for invalid JSON in <pkg>/package.json has
\* the path <pkg>/package.json.
C11_ErrorPathAccuracy ==
  /\ \A d \in Dirs :
       /\ (infoTask[d].st = "rejected"
             /\ infoTask[d].err[1].kind = "JsonParseError")
          => infoTask[d].err[1].path = infoTask[d].err[1].cause.path
       /\ (syncTask[d].st = "rejected"
             /\ syncTask[d].err[1].kind = "JsonParseError")
          => syncTask[d].err[1].path = syncTask[d].err[1].cause.path
  /\ (outcome.st = "rejected" /\ RejectedKind = "JsonParseError")
       => outcome.err[1].path = outcome.err[1].cause.path

\* every fault of the tree is a manifest whose JSON content is null
OnlyNull ==
  \A d \in Dirs : /\ packageJson[d].st \in {"absent", "ok", "null"}
                  /\ jsrJson0[d].st \in {"absent", "ok", "null"}

\* C12: an error that is neither not-found, nor a JSON syntax error, nor an
\* I/O failure reaches the caller of syncJsrJson as the original error, not
\* wrapped in a FileSystemError or a JsonParseError: when the only faults of
\* the tree are manifests whose content is null, a rejection is the
\* TypeError itself.
C12_UnrecognizedReraised ==
  (outcome.st = "rejected" /\ OnlyNull)
    => outcome.err[1] \in
         {TypeError(PackageJsonPath(d)) : d \in Dirs}
           \cup {TypeError(JsrJsonPath(d)) : d \in Dirs}

\* the summary lines processSyncResults can log
SummaryMessages == {CreateSummaryMessage(n) : n \in 0..NumDirs}

\* the errors the index and sync tasks have rejected with
TaskErrors ==
  UNION {{infoTask[d].err[i] : i \in 1..Len(infoTask[d].err)} : d \in Dirs}
  \cup UNION {{syncTask[d].err[i] : i \in 1..Len(syncTask[d].err)} : d \in Dirs}

\* C13: if the index task or the sync task of a package raises an error,
\* syncJsrJson rejects with such an error, returns no SyncResult and logs
\* no summary line; a task ends as a skip of the package, without going
\* through its documents, only when one of its manifests is absent.
C13_BatchAbort ==
  /\ TaskErrors # {} =>
       /\ pc = "rejected" /\ outcome.st = "rejected"
       /\ outcome.err[1] \in TaskErrors
       /\ \A i \in 1..Len(log) : log[i] \notin SummaryMessages
  /\ outcome.st = "rejected" => outcome.result = NoResult /\ pc = "rejected"
  /\ \A d \in Dirs :
       /\ infoTask[d].st = "done" =>
            IsObject(packageJson[d]) \/ packageJson[d].st = "absent"
       /\ syncTask[d].st = "done" =>
            \/ BothManifests(d)
            \/ packageJson[d].st = "absent" \/ jsrJson0[d].st = "absent"

\* syncJsrJson has rejected with the error of the sync task of one package
\* after the sync task of another package has staged changes and logged
C13_Witness ==
  /\ pc = "rejected"
  /\ \E d, e \in Dirs :
       /\ d # e
       /\ syncTask[d].st = "rejected" /\ outcome.err = syncTask[d].err
       /\ syncTask[e].st = "done" /\ syncTask[e].rec # <<>>
  /\ Len(log) > 0

\* the index buildPackageMap gives for the package.json files
SerialIndex ==
  BuildPackageMap([d \in Dirs |-> ReadPackageInfo(d, packageJson[d])])

\* the sync task of d run alone from its reads to its end on the jsr.json
\* file jf, the read of package.json settling before that of jsr.json:
\* the settled task and the file it leaves
SerialTask(d, jf) ==
  LET pf == packageJson[d]
      unchanged(t) == [task |-> t, file |-> jf]
      t == AfterBody(d, SyncPackageBody(d, pf, jf, SerialIndex), dryRun)
  IN IF ~Readable(pf)
     THEN unchanged(CatchSyncPackage(d, ReadError(pf, PackageJsonPath(d))))
     ELSE IF ~Readable(jf)
     THEN unchanged(CatchSyncPackage(d, ReadError(jf, JsrJsonPath(d))))
     ELSE IF t.st # "writing" THEN unchanged(t)
     ELSE IF jf.st = "readonly"
     THEN unchanged(CatchSyncPackage(d, ErrnoException("EACCES",
                                                       JsrJsonPath(d))))
     ELSE [task |-> TaskDone(t.rec), file |-> File("ok", t.doc)]

\* the sync tasks run one after another in listing order from the package
\* at position i on: the files they leave and the tasks as they settle
RECURSIVE SerialFrom(_, _)
SerialFrom(i, s) ==
  IF i > Len(GetPackageNames) THEN s
  ELSE LET d == GetPackageNames[i]
           r == SerialTask(d, s.files[d])
       IN SerialFrom(i + 1, [files |-> [s.files EXCEPT ![d] = r.file],
                             tasks |-> [s.tasks EXCEPT ![d] = r.task]])

\* the run in which the tasks go one after another, from the files the
\* current run started with; no sync task runs when the index build rejects
Serial ==
  LET s0 == [files |-> jsrJson0, tasks |-> [d \in Dirs |-> TaskIdle]]
  IN IF \E d \in Dirs : ReadPackageInfo(d, packageJson[d]).st = "rejected"
     THEN s0 ELSE SerialFrom(1, s0)

\* the ChangeRecords a run with these settled tasks returns: none when it
\* rejects
RecordsOf(tasks) ==
  IF \E d \in Dirs : tasks[d].st # "done" THEN {}
  ELSE {tasks[d].rec[1] : d \in {e \in Dirs : tasks[e].rec # <<>>}}

\* every task of the current run has settled
AllSettled ==
  /\ Settled
  /\ \A d \in Dirs : /\ infoTask[d].st \in {"done", "rejected"}
                     /\ syncTask[d].st \in {"idle", "done", "rejected"}

NoReadRace ==
  \A d \in Dirs :
    Cardinality(ReadFailures(d, packageJson[d], jsrJson0[d])) <= 1

IsUpdatingLine(line) == IsPrefix(<<"   Updating ">>, line)

\* C15: a run that completes successfully logs exactly one summary line,
\* after the "Updating" lines of every package; the line is the "already in
\* sync" message iff syncedCount is 0, "Synced 1 JSR version" for one synced
\* package and "Synced N JSR versions" for N > 1.
C15_SummaryLine ==
  pc = "resolved" =>
    LET n == outcome.result.syncedCount
        last == log[Len(log)]
    IN /\ Len(log) >= 1
       /\ \A i \in 1..(Len(log) - 1) :
            IsUpdatingLine(log[i]) /\ log[i] \notin SummaryMessages
       /\ ~IsUpdatingLine(last)
       /\ (last = <<"   JSR versions already in sync">>) <=> (n = 0)
       /\ n = 1 => last = <<"   Synced ", "1", " JSR ", "version">>
       /\ n > 1 => last = <<"   Synced ">> \o DecimalText(n)
                           \o <<" JSR ", "versions">>

\* a run has completed with two synced packages: their "Updating" lines
\* come before the summary line
C15_Witness ==
  /\ pc = "resolved"
  /\ outcome.result.syncedCount = 2
  /\ Len(log) >= 3
  /\ log[Len(log)] = <<"   Synced ", "2", " JSR ", "versions">>

\* the sync of d stages a change: both manifests hold a JSON object and the
\* version of package.json is set and differs from that of jsr.json, or an
\* imports entry has an update
StagesChange(d) ==
  /\ BothManifests(d)
  /\ \/ /\ Truthy(packageJson[d].doc.version)
        /\ packageJson[d].doc.version # jsrJson0[d].doc.version
     \/ \E i \in 1..Len(ImportsBefore(d)) :
          CalculateImportUpdate(ImportsBefore(d)[i].k, ImportsBefore(d)[i].v,
                                SerialIndex,
                                packageJson[d].doc.dependencies) # <<>>

\* the candidate packages whose sync stages a change, in listing order
StagedDirs == SelectSeq(GetPackageNames, StagesChange)

\* C16: in every SyncResult syncedCount is the length of syncedPackages,
\* which has exactly one ChangeRecord for each candidate package whose sync
\* staged a change and none for a package already in sync or skipped; the
\* changes of every ChangeRecord are not empty.
C16_Aggregation ==
  pc = "resolved" =>
    LET r == outcome.result
    IN /\ r.syncedCount = Len(r.syncedPackages)
       /\ Len(r.syncedPackages) = Len(StagedDirs)
       /\ \A i \in 1..Len(r.syncedPackages) :
            /\ i <= Len(StagedDirs)
            /\ << r.syncedPackages[i] >> = syncTask[StagedDirs[i]].rec
            /\ Len(r.syncedPackages[i].changes) > 0
       /\ \A d \in Dirs :
            ~StagesChange(d) => syncTask[d].rec = <<>>

\* a run has completed with one package synced, one package already in
\* sync beside it
C16_Witness ==
  /\ pc = "resolved"
  /\ outcome.result.syncedCount = 1
  /\ \E d, e \in Dirs :
       /\ StagesChange(d)
       /\ BothManifests(e) /\ ~StagesChange(e)

\* the name of the manifest document is defined
Defined(v) == v.t # "undef"

\* the packageName the claim gives the ChangeRecord of d
NameOf(d) ==
  IF Defined(packageJson[d].doc.name) THEN packageJson[d].doc.name.s
  ELSE IF Defined(jsrJson0[d].doc.name) THEN jsrJson0[d].doc.name.s
  ELSE DirName(d)

MaxRangeLen == 3

\* the characters of the version ranges: digits, the dot, the operators of
\* the ranges of npm, the space, and a letter
RangeChars == {"0", "1", "2", ".", "^", "~", ">", "=", "<", " ", "v"}

VersionRanges ==
  UNION { [1..n -> RangeChars] : n \in 0..MaxRangeLen }

MinimumVersions ==
  { <<"1">>, <<"2">>, <<"1", "0">>, <<"1", ".", "0">>, <<"1", ".", "1">>,
    <<"1", ".", "0", ".", "1">>, <<"0", ".", "2", ".", "0">> }

\* syncJsrJson is not run
NoSync ==
  /\ packageJson = [d \in Dirs |-> PackageFile("absent")]
  /\ jsrJson = [d \in Dirs |-> JsrFile("absent")]
  /\ pc = "idle"
  /\ run = 0
  /\ dryRun = FALSE
  /\ infoTask = [d \in Dirs |-> InfoIdle]
  /\ packageMap = EmptyMap
  /\ syncTask = [d \in Dirs |-> TaskIdle]
  /\ log = <<>>
  /\ outcome = NoOutcome
  /\ jsrJson0 = jsrJson
  /\ history = <<>>

VersionInit ==
  /\ NoSync
  /\ lint = NoLint
  /\ script = NoScript
  /\ parse = NoParse
  /\ \E r \in VersionRanges, m \in MinimumVersions :
       check = [NoCheck EXCEPT !.versionRange = r, !.minimumVersion = m]

CallMeetsMinimumVersion ==
  /\ check.pc = "idle"
  /\ check' = [check EXCEPT
                 !.pc = "done",
                 !.result = MeetsMinimumVersion(check.versionRange,
                                                check.minimumVersion)]
  /\ UNCHANGED << syncVars, lint, script, parse >>

VersionNext == CallMeetsMinimumVersion

VersionSpec == VersionInit /\ [][VersionNext]_vars

\* the version at the start of a range: the operator characters and the
\* spaces the range starts with, then the digits and dots that follow
LeadingVersion(versionRange) == MatchVersionAt(versionRange, 1)

\* the component i of a version as an integer, a missing component is 0
Component(version, i) == PartOrZero(Split(version), i)

\* version is greater than or equal to min, component by component
AtLeast(version, min) ==
  \A i \in 1..Max(Len(version), Len(min)) :
    Component(version, i) < Component(min, i)
      => \E j \in 1..(i - 1) : Component(version, j) > Component(min, j)

\* C20: meetsMinimumVersion(range, min) is true exactly when a version can
\* be extracted from the range after its optional operator and that
\* version is greater than or equal to min component by component; it is
\* false for every range from which no version can be extracted.
C20_MinimumVersionCheck ==
  check.pc = "done" =>
    check.result =
      (/\ LeadingVersion(check.versionRange) # <<>>
       /\ AtLeast(LeadingVersion(check.versionRange)[1],
                  check.minimumVersion))

(***************************************************************************)
(* The prefer-jsr rule is run on a file, the fix of one of its reports is  *)
(* applied, and the rule is run on the fixed file.                         *)
(***************************************************************************)
MaxMembers == 2

LintFilenames ==
  { <<"package.json">>, <<"packages/a/", "package.json">>,
    <<"my-", "package.json">>, <<"tsconfig.json">>,
    <<"package.json", ".bak">> }

Parsers == {"@eslint/json", "jsonc-eslint-parser"}

\* the options of the rule: ignore and customMappings
RuleOptions ==
  { [ignore |-> i, customMappings |-> c] :
      i \in { {}, {"zod"} },
      c \in { [n \in {} |-> ""], [n \in {"lodash"} |-> "@std/lodash"],
              [n \in {"zod"} |-> "@my/zod"] } }

\* "^3.0.0"
Range3 == <<"^", "3", ".", "0", ".", "0">>

\* the members of a dependency group: the values are "^3.0.0", "^0.1.0",
\* "jsr:^3.0.0" and the number 1
DependencyEntries ==
  { Entry(n, v) :
      n \in {"zod", "@eslint/json", "lodash"},
      v \in { Str(Range3), Str(<<"^", "0", ".", "1", ".", "0">>),
              Str(JSR \o Range3), Num(<<"1">>) } }

DependencyLists ==
  UNION { {l \in [1..n -> DependencyEntries] : DistinctKeys(l)} :
          n \in 0..MaxMembers }

\* the documents: one group at the top, a group that is not an object, a
\* group inside another object, and two groups at the top
Documents ==
  LET ShortDependencyLists == {l \in DependencyLists : Len(l) <= 1}
  IN
  { << Entry("dependencies", Obj(l)) >> : l \in DependencyLists }
  \cup { << Entry(g, Obj(l)) >> :
           g \in {"devDependencies", "optionalDependencies",
                  "peerDependencies", "scripts"},
           l \in ShortDependencyLists }
  \cup { << Entry("dependencies", Str(Range3)) >> }
  \cup { << Entry("config", Obj(<< Entry(g, Obj(l)) >>)) >> :
           g \in {"dependencies", "scripts"}, l \in ShortDependencyLists }
  \cup { << Entry("dependencies", Obj(l)),
            Entry("devDependencies", Obj(<< Entry("zod", Str(Range3)) >>)) >> :
           l \in ShortDependencyLists }

LintInit ==
  /\ NoSync
  /\ check = NoCheck
  /\ script = NoScript
  /\ parse = NoParse
  /\ \E f \in LintFilenames, p \in Parsers, o \in RuleOptions,
        d \in Documents :
       /\ f # <<"package.json">> =>
            d = << Entry("dependencies", Obj(<< Entry("zod", Str(Range3)) >>)) >>
       /\ lint = [NoLint EXCEPT !.filename = f, !.parser = p, !.options = o,
                                !.doc = d]

\* ESLint runs the rule on the file
Lint ==
  /\ lint.pc = "idle"
  /\ lint' = [lint EXCEPT
                !.pc = "linted",
                !.reports = PreferJsrRule(lint.filename, lint.parser,
                                          lint.doc, lint.options)]
  /\ UNCHANGED << syncVars, check, script, parse >>

\* the fix of the report r is applied to the file
Fix(r) ==
  /\ lint.pc = "linted"
  /\ r \in lint.reports
  /\ lint' = [lint EXCEPT
                !.pc = "fixed",
                !.before = lint.doc,
                !.doc = ApplyFix(lint.doc, r),
                !.fixed = << r >>,
                !.reports = {}]
  /\ UNCHANGED << syncVars, check, script, parse >>

\* ESLint runs the rule on the fixed file
Relint ==
  /\ lint.pc = "fixed"
  /\ lint' = [lint EXCEPT
                !.pc = "relinted",
                !.reports = PreferJsrRule(lint.filename, lint.parser,
                                          lint.doc, lint.options)]
  /\ UNCHANGED << syncVars, check, script, parse >>

LintNext ==
  \/ Lint
  \/ \E r \in lint.reports : Fix(r)
  \/ Relint

LintSpec == LintInit /\ [][LintNext]_vars

\* the entries of a document: the members of the objects that are members
\* of the document or of an object of the document
EntryPaths(doc) == SecondLevel(doc) \cup ThirdLevel(doc)

\* the key of the member that holds the object the entry at a path is in
GroupKey(doc, path) == MemberAt(doc, SubSeq(path, 1, Len(path) - 1)).k

\* the conditions of the report of the entry at a path, the entry being a
\* member of a dependency group of the manifest
ReportCondition(filename, doc, options, path) ==
  /\ EndsWithPackageJson(filename)
  /\ Len(path) = 2
  /\ GroupKey(doc, path) \in DependencyGroups
  /\ MemberAt(doc, path).v.t = "str"
  /\ MemberAt(doc, path).k \notin options.ignore
  /\ ~StartsWithJsr(MemberAt(doc, path).v.s)
  /\ \/ MemberAt(doc, path).k \in DOMAIN options.customMappings
     \/ /\ MemberAt(doc, path).k \in DOMAIN NpmToJsrMapping
        /\ MeetsMinimumVersion(
             MemberAt(doc, path).v.s,
             NpmToJsrMapping[MemberAt(doc, path).k].minimumVersion)

Reported(path) == \E r \in lint.reports : r.path = path

\* C18: the rule reports a dependency entry if and only if the file name
\* ends with package.json, the entry is a string-valued member of one of
\* the four dependency groups, its name is not ignored, its value does not
\* start with "jsr:", and customMappings has an entry for the name or the
\* built-in table has one and the value meets its minimum version.
C18_LintReportCondition ==
  lint.pc = "linted" =>
    \A path \in EntryPaths(lint.doc) :
      Reported(path) <=>
        ReportCondition(lint.filename, lint.doc, lint.options, path)

\* the members of a document and of its objects, down to the entries
AllPaths(doc) == TopLevel(doc) \cup SecondLevel(doc) \cup ThirdLevel(doc)

\* p is a path to an object that holds the entry at path q
Above(p, q) == Len(p) < Len(q) /\ SubSeq(q, 1, Len(p)) = p

\* the JSR equivalent of an npm name under the options: the entry of
\* customMappings, or else the name of the built-in table
JsrEquivalentOf(options, name) ==
  IF name \in DOMAIN options.customMappings THEN options.customMappings[name]
  ELSE NpmToJsrMapping[name].jsrPackage

\* C19: the fix of a reported entry (name, range) with JSR equivalent J
\* replaces the value by "jsr:" followed by the range, replaces the key by
\* J only when J differs from the name, and touches no other entry; the
\* rule run on the fixed document reports nothing for that entry.
C19_LintAutoFix ==
  /\ lint.pc \in {"fixed", "relinted"} =>
       LET path == lint.fixed[1].path
           old == MemberAt(lint.before, path)
           new == MemberAt(lint.doc, path)
           J == JsrEquivalentOf(lint.options, old.k)
       IN /\ lint.fixed[1] \in
               PreferJsrRule(lint.filename, lint.parser, lint.before,
                             lint.options)
          /\ new.v = Str(JSR \o old.v.s)
          /\ new.k = (IF J # old.k THEN J ELSE old.k)
          /\ AllPaths(lint.doc) = AllPaths(lint.before)
          /\ \A p \in AllPaths(lint.before) \ {path} :
               IF Above(p, path)
               THEN MemberAt(lint.doc, p).k = MemberAt(lint.before, p).k
               ELSE MemberAt(lint.doc, p) = MemberAt(lint.before, p)
  /\ lint.pc = "relinted" => ~Reported(lint.fixed[1].path)

\* the fix of an entry whose JSR name differs from its npm name was
\* applied, the rule was run again, and it still reports another entry
C19_Witness ==
  /\ lint.pc = "relinted"
  /\ lint.fixed[1].npmPackage # lint.fixed[1].jsrPackage
  /\ lint.reports # {}

(***************************************************************************)
(* The version script: releaseVersion, syncJsrJson, the amend of the       *)
(* release commit, releaseChangelog.  The script is one async function     *)
(* without a catch: an error of an awaited call is an unhandled rejection, *)
(* which ends the process with the exit code 1.  While the script awaits   *)
(* syncJsrJson (script.pc = "versioned") the steps of the run are taken.   *)
(***************************************************************************)
\* the trees the script is run on
ScriptTrees == {t \in Trees : t[NumDirs] \in FaultyPackages}

ScriptInit ==
  /\ \E t \in ScriptTrees :
       /\ packageJson = [d \in Dirs |-> t[d].p]
       /\ jsrJson = [d \in Dirs |-> t[d].j]
  /\ pc = "idle"
  /\ run = 0
  /\ dryRun = FALSE
  /\ infoTask = [d \in Dirs |-> InfoIdle]
  /\ packageMap = EmptyMap
  /\ syncTask = [d \in Dirs |-> TaskIdle]
  /\ log = <<>>
  /\ outcome = NoOutcome
  /\ jsrJson0 = jsrJson
  /\ history = <<>>
  /\ lint = NoLint
  /\ check = NoCheck
  /\ parse = NoParse
  /\ \E dry \in BOOLEAN :
       script = [NoScript EXCEPT !.pc = "start", !.dryRun = dry]

\* process.exit(code), or the end of the process on an unhandled rejection
Exit(s, code) == [s EXCEPT !.pc = "exited", !.exitCode = << code >>]

\* step 1: releaseVersion throws, gives no project version data, or gives
\* project version data
ReleaseVersion ==
  /\ script.pc = "start"
  /\ \E data \in {"throws", "none", "data"} :
       LET s == [script EXCEPT !.versionData = data,
                               !.steps = << "releaseVersion" >>]
       IN script' = IF data = "throws" THEN Exit(s, 1)
                    ELSE IF data = "none" THEN Exit(s, 0)
                    ELSE [s EXCEPT !.pc = "versioned"]
  /\ UNCHANGED << syncVars, lint, check, parse >>

\* step 2: syncJsrJson({ dryRun: options.dryRun }) is called
CallSyncJsrJson ==
  /\ script.pc = "versioned"
  /\ pc = "idle"
  /\ Start(script.dryRun)

\* the promise of syncJsrJson rejected
SyncJsrJsonRejected ==
  /\ script.pc = "versioned"
  /\ pc = "rejected"
  /\ script' = Exit(script, 1)
  /\ UNCHANGED << syncVars, lint, check, parse >>

\* the outcomes of the git commands of step 3: git add fails; git diff
\* exits with 0 (nothing staged); git diff fails with another status; git
\* diff exits with 1 and git commit --amend succeeds or fails
GitSteps ==
  { << "git add fails" >>,
    << "git add", "git diff 0" >>,
    << "git add", "git diff fails" >>,
    << "git add", "git diff 1", "git commit --amend" >>,
    << "git add", "git diff 1", "git commit --amend fails" >> }

\* step 3 when the dryRun flag is not looked at
AmendReleaseCommitAlways ==
  /\ script.pc = "versioned"
  /\ pc = "resolved"
  /\ \E g \in GitSteps :
       script' = [script EXCEPT !.pc = "amended", !.steps = @ \o g]
  /\ UNCHANGED << syncVars, lint, check, parse >>

\* step 3: the promise of syncJsrJson resolved; when the run is not a dry
\* run the git commands are run, their errors are caught
AmendReleaseCommit ==
  /\ script.pc = "versioned"
  /\ pc = "resolved"
  /\ IF script.dryRun
     THEN script' = [script EXCEPT !.pc = "amended"]
     ELSE \E g \in GitSteps :
            script' = [script EXCEPT !.pc = "amended", !.steps = @ \o g]
  /\ UNCHANGED << syncVars, lint, check, parse >>

\* step 4: releaseChangelog resolves, then process.exit(0), or it throws
ReleaseChangelog ==
  /\ script.pc = "amended"
  /\ \E ok \in BOOLEAN :
       script' =
         Exit([script EXCEPT
                 !.steps = Append(@, IF ok THEN "releaseChangelog"
                                     ELSE "releaseChangelog throws")],
              IF ok THEN 0 ELSE 1)
  /\ UNCHANGED << syncVars, lint, check, parse >>

\* the steps of the run of syncJsrJson the script awaits
SyncSteps ==
  /\ script.pc = "versioned"
  /\ \/ \E d \in Dirs : ReadInfo(d)
     \/ BuildIndex
     \/ \E d \in Dirs : SyncPackage(d)
     \/ \E d \in Dirs : WriteJsrJson(d)
     \/ ProcessSyncResults

ScriptNext ==
  \/ ReleaseVersion
  \/ CallSyncJsrJson
  \/ SyncSteps
  \/ SyncJsrJsonRejected
  \/ AmendReleaseCommit
  \/ ReleaseChangelog

ScriptSpec == ScriptInit /\ [][ScriptNext]_vars

Did(step) == \E i \in 1..Len(script.steps) : script.steps[i] = step

GitCommands ==
  { "git add", "git add fails", "git diff 0", "git diff 1", "git diff fails",
    "git commit --amend", "git commit --amend fails" }

\* C21: the version script runs version bumping first; without project
\* version data it exits with code 0 without syncing; otherwise it runs
\* syncJsrJson with the script's dryRun flag before any amend, amends only
\* when not in dry run, and generates changelogs only after the sync has
\* completed; an error of syncJsrJson prevents the amend, the changelog
\* and the exit code 0.
C21_ReleaseScriptOrdering ==
  /\ (run > 0 \/ script.steps # <<>>) =>
       /\ script.steps # <<>>
       /\ script.steps[1] = "releaseVersion"
  /\ script.versionData = "none" =>
       /\ script.exitCode = << 0 >>
       /\ run = 0
       /\ script.steps = << "releaseVersion" >>
  /\ run > 0 => (script.versionData = "data" /\ dryRun = script.dryRun)
  /\ (\E g \in GitCommands : Did(g)) => (pc = "resolved" /\ ~script.dryRun)
  /\ (Did("releaseChangelog") \/ Did("releaseChangelog throws")) =>
       pc = "resolved"
  /\ pc = "rejected" =>
       /\ \A g \in GitCommands : ~Did(g)
       /\ ~Did("releaseChangelog")
       /\ ~Did("releaseChangelog throws")
       /\ script.exitCode # << 0 >>
  /\ (script.pc = "exited" /\ pc = "rejected") => script.exitCode = << 1 >>

\* the script ran to its end in a run that is not a dry run: the sync
\* resolved with a ChangeRecord, the commit was amended, the changelogs
\* were generated and the exit code is 0
C21_Witness ==
  /\ script.pc = "exited"
  /\ script.exitCode = << 0 >>
  /\ ~script.dryRun
  /\ outcome.st = "resolved"
  /\ outcome.result.syncedCount > 0
  /\ Did("git commit --amend")
  /\ Did("releaseChangelog")

\* the script ended because syncJsrJson rejected
C21_WitnessRejected ==
  /\ script.pc = "exited"
  /\ pc = "rejected"

IsVersionEntry(change) == change[1] = "version: "
IsImportEntry(change) == change[1] = "imports["

\* the alias of an "imports[alias]: old -> new" entry
AliasOf(change) ==
  SubSeq(change, 2,
         (CHOOSE k \in 2..Len(change) :
            change[k] = "]: " /\ \A m \in 2..(k - 1) : change[m] # "]: ") - 1)

\* the place of an alias in the imports of d when the run started
PlaceOf(d, alias) ==
  CHOOSE i \in 1..Len(ImportsBefore(d)) : ImportsBefore(d)[i].k = alias

\* C22: in every ChangeRecord the version entry, if present, is the first
\* element of changes, and the imports entries follow in the iteration
\* order of the imports of the parsed jsr.json, in every interleaving.
C22_ChangeOrdering ==
  \A d \in Dirs :
    /\ \A i \in 1..Len(ChangesOf(d)) :
         /\ IsVersionEntry(ChangesOf(d)[i]) \/ IsImportEntry(ChangesOf(d)[i])
         /\ IsVersionEntry(ChangesOf(d)[i]) => i = 1
         /\ IsImportEntry(ChangesOf(d)[i]) =>
              \E e \in 1..Len(ImportsBefore(d)) :
                ImportsBefore(d)[e].k = AliasOf(ChangesOf(d)[i])
    /\ \A i, j \in 1..Len(ChangesOf(d)) :
         (i < j /\ IsImportEntry(ChangesOf(d)[i])
                /\ IsImportEntry(ChangesOf(d)[j])) =>
           PlaceOf(d, AliasOf(ChangesOf(d)[i]))
             < PlaceOf(d, AliasOf(ChangesOf(d)[j]))
    /\ \A r \in 1..Len(outcome.result.syncedPackages) :
         \E e \in Dirs :
           syncTask[e].rec = << outcome.result.syncedPackages[r] >>

\* a ChangeRecord with two imports entries
C22_Witness ==
  \E d \in Dirs :
    \E i, j \in 1..Len(ChangesOf(d)) :
      /\ i < j
      /\ IsImportEntry(ChangesOf(d)[i])
      /\ IsImportEntry(ChangesOf(d)[j])

\* a ChangeRecord with the version entry and an imports entry
C22_WitnessVersion ==
  \E d \in Dirs :
    /\ Len(ChangesOf(d)) >= 2
    /\ IsVersionEntry(ChangesOf(d)[1])
    /\ IsImportEntry(ChangesOf(d)[2])

\* buildPackageMap has returned in the current run: the sync tasks have
\* been started
IndexBuilt == \A d \in Dirs : syncTask[d].st # "idle"

\* C23: the index holds exactly the names of the packages whose
\* package.json exists and has a name and a version; each name maps to
\* the version of the last package in listing order that declares it,
\* whatever the order in which the reads complete.
C23_IndexConstruction ==
  IndexBuilt =>
    /\ \A n \in DOMAIN packageMap :
         Indexed(n) /\ packageMap[n] = IndexedVersion(n)
    /\ \A d \in Dirs :
         (/\ IsObject(packageJson[d])
          /\ Truthy(packageJson[d].doc.name)
          /\ Truthy(packageJson[d].doc.version)) =>
           packageJson[d].doc.name.s \in DOMAIN packageMap

\* the index is built from two packages that declare the same name with
\* different versions
C23_Witness ==
  /\ IndexBuilt
  /\ \E d, e \in Dirs :
       /\ d < e
       /\ Declares(d, packageJson[e].doc.name.s)
       /\ Declares(e, packageJson[e].doc.name.s)
       /\ packageJson[d].doc.version # packageJson[e].doc.version

\* the versions of the manifests of d when the run started differ, the
\* version of package.json being present
VersionDiffers(d) ==
  /\ packageJson[d].doc.version.t = "str"
  /\ packageJson[d].doc.version.s # <<>>
  /\ packageJson[d].doc.version # jsrJson0[d].doc.version

HasVersionEntry(d) ==
  \E i \in 1..Len(ChangesOf(d)) : IsVersionEntry(ChangesOf(d)[i])

\* the version the sync of d gives jsr.json
SyncedVersion(d) ==
  IF VersionDiffers(d) THEN packageJson[d].doc.version
  ELSE jsrJson0[d].doc.version

\* C24: syncPackage stages "version: <old> -> <new>" and sets the version
\* of jsr.json to that of package.json if and only if the version of
\* package.json is present and differs from that of jsr.json; without a
\* version in package.json the version of jsr.json is never changed and no
\* version change is staged.
C24_VersionStep ==
  \A d \in Dirs :
    /\ Synced(d) =>
         /\ HasVersionEntry(d) <=> VersionDiffers(d)
         /\ VersionDiffers(d) =>
              ChangesOf(d)[1] =
                <<"version: ">> \o ToText(jsrJson0[d].doc.version)
                  \o <<" -> ">> \o ToText(packageJson[d].doc.version)
         /\ syncTask[d].st = "writing" =>
              syncTask[d].doc.version = SyncedVersion(d)
         /\ Written(d) => jsrJson[d].doc.version = SyncedVersion(d)
    /\ (IsObject(jsrJson0[d]) /\ ~VersionDiffers(d)) =>
         jsrJson[d].doc.version = jsrJson0[d].doc.version

\* a version change was staged and written, and another package without a
\* version in its package.json was synced
C24_Witness ==
  \E d, e \in Dirs :
    /\ Written(d)
    /\ VersionDiffers(d)
    /\ jsrJson[d].doc.version # jsrJson0[d].doc.version
    /\ Synced(e)
    /\ packageJson[e].doc.version = Undef

\* the keys of imports, in their order
KeysOf(imports) == [i \in 1..Len(imports) |-> imports[i].k]

\* the document new has the fields of the document old, the version and
\* the values of the imports entries apart
SameFrame(old, new) ==
  /\ KeysOf(new.imports) = KeysOf(old.imports)
  /\ new.hasImports = old.hasImports
  /\ new.name = old.name

\* C25: for every package and every run, the keys of imports after the
\* run are the keys before it, and every field of the jsr.json document
\* other than version and the values of the imports entries has the value
\* it had before.
C25_JsrJsonFrame ==
  \A d \in Dirs :
    /\ jsrJson[d].st = jsrJson0[d].st
    /\ SameFrame(jsrJson0[d].doc, jsrJson[d].doc)
    /\ syncTask[d].st = "writing" =>
         SameFrame(jsrJson0[d].doc, syncTask[d].doc)

\* a jsr.json with two imports entries was written with another value for
\* one of them
C25_Witness ==
  \E d \in Dirs :
    /\ Written(d)
    /\ Len(jsrJson[d].doc.imports) >= 2
    /\ \E i, j \in 1..Len(jsrJson[d].doc.imports) :
         /\ jsrJson[d].doc.imports[i] # jsrJson0[d].doc.imports[i]
         /\ jsrJson[d].doc.imports[j] = jsrJson0[d].doc.imports[j]

\* writeFile of the jsr.json of d is in flight
Writing(d) == syncTask[d].st = "writing"

\* C26: the only files syncJsrJson writes are the jsr.json of the packages
\* for which a change was staged, each written by the sync task of its
\* package; no package.json is written and the jsr.json of a package
\* without a staged change is left untouched.
C26_WriteSet ==
  /\ [](\A d \in Dirs :
          /\ Writing(d) => Len(ChangesOf(d)) > 0
          /\ (syncTask[d].st = "done" /\ ChangesOf(d) = <<>>) =>
               jsrJson[d] = jsrJson0[d])
  /\ [][\A d \in Dirs :
          /\ packageJson'[d] = packageJson[d]
          /\ jsrJson'[d] # jsrJson[d] =>
               /\ Writing(d)
               /\ syncTask'[d].st = "done"
               /\ jsrJson'[d].doc = syncTask[d].doc
               /\ \A e \in Dirs \ {d} : jsrJson'[e] = jsrJson[e]]_vars

\* one jsr.json was written and the other package, without a staged
\* change, has its jsr.json as it was
C26_Witness ==
  \E d, e \in Dirs :
    /\ Written(d)
    /\ jsrJson[d] # jsrJson0[d]
    /\ Synced(e)
    /\ syncTask[e].st = "done"
    /\ ChangesOf(e) = <<>>
    /\ jsrJson[e] = jsrJson0[e]

(***************************************************************************)
(* The calls of parseJsrImport on a string and, when it is accepted, of    *)
(* createJsrImport on the result and of parseJsrImport on the string       *)
(* created.                                                                *)
(***************************************************************************)
MaxOpLen == 2

\* the strings parsed: a registry prefix, a name, an "@", a sequence of
\* operator characters, a version and a text after the version
Registries == { JSR, NPM, <<>> }
ImportNames ==
  { <<"@", "a", "/", "q">>, <<"a", "/", "q">>, <<"@", "a">>,
    <<"@", "a", "-", "1", "/", "q", "_", "2">> }
OperatorRuns == UNION { [1..n -> OpChar] : n \in 0..MaxOpLen }
VersionTexts ==
  { <<>>, <<"1">>, <<"1", ".", "0">>, <<"1", "2", ".", "0", ".", "3">>,
    <<".">>, <<"1", ".", ".", "0">>, <<"1", ".">> }
TextsAfter == { <<>>, <<"-", "b">>, <<" ">>, <<"@", "1">> }

ImportStrings ==
  { r \o n \o a \o o \o v \o t :
      r \in Registries, n \in ImportNames, a \in { AT, <<>> },
      o \in OperatorRuns, v \in VersionTexts, t \in TextsAfter }

ParserInit ==
  /\ NoSync
  /\ lint = NoLint
  /\ check = NoCheck
  /\ script = NoScript
  /\ \E s \in ImportStrings : parse = [NoParse EXCEPT !.s = s]

\* parseJsrImport(s)
Parse ==
  /\ parse.pc = "idle"
  /\ parse' = [parse EXCEPT !.pc = "parsed",
                            !.result = ParseJsrImport(parse.s)]
  /\ UNCHANGED << syncVars, lint, check, script >>

\* createJsrImport on the result, and parseJsrImport on what it gives
CreateAndParse ==
  /\ parse.pc = "parsed"
  /\ parse.result # <<>>
  /\ LET created == CreateJsrImport(parse.result[1].packageName,
                                    parse.result[1].versionPrefix,
                                    parse.result[1].version)
     IN parse' = [parse EXCEPT !.pc = "reparsed",
                               !.created = created,
                               !.reparsed = ParseJsrImport(created)]
  /\ UNCHANGED << syncVars, lint, check, script >>

ParserNext == Parse \/ CreateAndParse

ParserSpec == ParserInit /\ [][ParserNext]_vars

\* C27: for every string that parseJsrImport accepts with the result
\* {packageName, versionPrefix, version}, the string createJsrImport makes
\* of the result is accepted by parseJsrImport and parses to the same
\* result.
C27_ParserRoundTrip ==
  parse.pc = "reparsed" =>
    /\ parse.created =
         JSR \o parse.result[1].packageName \o <<"@">>
           \o parse.result[1].versionPrefix \o parse.result[1].version
    /\ parse.reparsed # <<>>
    /\ parse.reparsed = parse.result

\* a string with an operator and a text after the version was accepted,
\* and the string created from the result, another string, was parsed
C27_Witness ==
  /\ parse.pc = "reparsed"
  /\ parse.result[1].versionPrefix # <<>>
  /\ parse.created # parse.s

\* scope/name: an optional "@", name characters, "/", name characters
IsImportName(n) ==
  \E m \in 2..(Len(n) - 1) :
    /\ n[m] = "/"
    /\ \A i \in 1..Len(n) :
         i # m => (n[i] \in NameChar \/ (i = 1 /\ n[i] = "@" /\ m > 2))

\* digits(.digits)*
IsDottedDigits(v) ==
  /\ v # <<>>
  /\ \A i \in 1..Len(v) : v[i] \in VersionChar
  /\ v[1] # "." /\ v[Len(v)] # "."
  /\ \A i \in 1..(Len(v) - 1) : ~(v[i] = "." /\ v[i + 1] = ".")

\* "jsr:" + scope/name + "@" + operator + digits(.digits)*
InGrammar(s) ==
  /\ IsPrefix(JSR, s)
  /\ \E c \in 5..Len(s) :
       /\ s[c] = "@"
       /\ IsImportName(SubSeq(s, 5, c - 1))
       /\ \E e \in c..Len(s) :
            /\ SubSeq(s, c + 1, e) \in Operators
            /\ IsDottedDigits(SubSeq(s, e + 1, Len(s)))

\* C28: parseJsrImport returns a non-null result only for the strings that
\* are, in their entirety, "jsr:" + scope/name + "@" + operator +
\* digits(.digits)* with one of the seven operators; for every other
\* string it returns null, and the operator of every non-null result is
\* one of the seven.
C28_ParserGrammar ==
  parse.pc = "parsed" =>
    /\ parse.result # <<>> => InGrammar(parse.s)
    /\ parse.result # <<>> => parse.result[1].versionPrefix \in Operators

\* the packages whose sync task returned a ChangeRecord
WithRecord == {d \in Dirs : syncTask[d].rec # <<>>}

\* C29: the ChangeRecords of syncedPackages are in the listing order of
\* their packages, whatever the order in which the sync tasks complete.
C29_ResultOrder ==
  outcome.st = "resolved" =>
    /\ Len(outcome.result.syncedPackages) = Cardinality(WithRecord)
    /\ \A d \in WithRecord :
         outcome.result.syncedPackages[
           1 + Cardinality({e \in WithRecord : e < d})] = syncTask[d].rec[1]

\* a run resolved with the ChangeRecords of two packages
C29_Witness ==
  /\ outcome.st = "resolved"
  /\ Len(outcome.result.syncedPackages) >= 2
  /\ outcome.result.syncedPackages[1] # outcome.result.syncedPackages[2]

\* the new value of an "imports[alias]: old -> new" entry
ToOf(change) ==
  SubSeq(change,
         (CHOOSE k \in 1..Len(change) :
            change[k] = " -> " /\ \A m \in (k + 1)..Len(change) :
                                    change[m] # " -> ") + 1,
         Len(change))

\* the value the staged changes of d give the imports entry e
StagedValue(d, e) ==
  IF \E i \in 1..Len(ChangesOf(d)) :
       IsImportEntry(ChangesOf(d)[i]) /\ AliasOf(ChangesOf(d)[i]) = e.k
  THEN Str(ToOf(ChangesOf(d)[
         CHOOSE i \in 1..Len(ChangesOf(d)) :
           IsImportEntry(ChangesOf(d)[i]) /\ AliasOf(ChangesOf(d)[i]) = e.k]))
  ELSE e.v

\* the document doc is the jsr.json d started from with the version change
\* and every staged imports change applied
FullySynced(d, doc) ==
  /\ doc.version = SyncedVersion(d)
  /\ Len(doc.imports) = Len(jsrJson0[d].doc.imports)
  /\ \A i \in 1..Len(doc.imports) :
       /\ doc.imports[i].k = jsrJson0[d].doc.imports[i].k
       /\ doc.imports[i].v = StagedValue(d, jsrJson0[d].doc.imports[i])

\* C30: each jsr.json is written at most once per run, and only with the
\* document in which the version change and every staged imports change
\* are applied: at every point of a run, also when the run rejects, each
\* jsr.json holds its starting content or its fully synced content, and if
\* the index build fails no jsr.json has been written.
C30_NoPartialSync ==
  /\ [](\A d \in Dirs :
          /\ jsrJson[d] = jsrJson0[d] \/ FullySynced(d, jsrJson[d].doc)
          /\ Writing(d) => FullySynced(d, syncTask[d].doc)
          /\ ~IndexBuilt => jsrJson[d] = jsrJson0[d])
  /\ [][\A d \in Dirs :
          (run' = run /\ jsrJson'[d] # jsrJson[d]) =>
            /\ jsrJson[d] = jsrJson0[d]
            /\ syncTask'[d].st = "done"]_vars
  /\ [][\A d \in Dirs :
          (run' = run /\ syncTask[d].st \in {"done", "rejected"}) =>
            syncTask'[d] = syncTask[d]]_vars

\* the run rejected because of one package after the jsr.json of another
\* package, with a version change and an imports change, was written
C30_Witness ==
  /\ pc = "rejected"
  /\ \E d \in Dirs :
       /\ jsrJson[d] # jsrJson0[d]
       /\ Len(ChangesOf(d)) >= 2

====
